---- MODULE Spec2Model ----
(***************************************************************************)
(* Verification model of the DuckCoding transparent proxy (src-tauri).     *)
(*                                                                         *)
(* Part I   - the token ledger writer (services/token_stats/manager.rs):   *)
(*            write_log, the batch writer task, the checkpoint task and    *)
(*            shutdown_token_stats_manager.          SpecLedger            *)
(* Part II  - one ProxyInstance (services/proxy/proxy_instance.rs): the    *)
(*            per-request pipeline of handle_request_inner, the SSE tee,   *)
(*            the spawned recorder tasks and update_config.                *)
(*                              SpecProxy, SpecAuth, SpecReconfig          *)
(* Part III - the request processors (services/proxy/headers) applied to   *)
(*            drawn inputs.   SpecProcessor, SpecCodexUrl, SpecSessionIds  *)
(* Part IV  - the check-in scheduler (services/checkin_scheduler.rs and    *)
(*            services/checkin.rs): the 60 s tick loop and run_once.       *)
(*                              SpecCheckin, SpecCheckinTick, SpecRetry    *)
(* Part V   - the remote pricing sync (services/pricing/remote_sync.rs).   *)
(*                              SpecSync, SpecAliases                      *)
(* Part VI  - the token processors (services/token_stats/processor).       *)
(*                              SpecTokens                                 *)
(* Part VII - the credentials in the bodies of the answers.     SpecLeak   *)
(* Part VIII- LogRecorder::record with the rows in full.   SpecRecorder   *)
(* Part IX  - the Amp processor's detect_api_type.              SpecAmp    *)
(* Part X   - JsonStore / TomlStore (services/config_store.rs): update     *)
(*            and write, one file-system step at a time.        SpecStore  *)
(* Part XI  - the life of the spawned loops: ProxyInstance::start / stop   *)
(*            and CheckinScheduler::start / stop, one await at a time.     *)
(*                              SpecInstance, SpecScheduler                *)
(***************************************************************************)
EXTENDS Integers, Sequences, FiniteSets, TLC

VARIABLES
    \* ---- Part I: TokenStatsManager -------------------------------------
    sent,             \* rows accepted by write_log so far (rows are 1..sent)
    channel,          \* mpsc::unbounded_channel<TokenLog>: rows in flight
    buffer,           \* the writer task's `buffer: Vec<TokenLog>`
    db,               \* rows inserted by insert_log_without_checkpoint
    lastCheckpoint,   \* mode of the most recent WAL checkpoint ("none" before any)
    cancelled,        \* CANCELLATION_TOKEN.is_cancelled()
    writerAlive,      \* the batch writer task has not left its loop
    checkpointAlive,  \* the periodic checkpoint task has not left its loop
    lastBranch,       \* the select! branch the writer task ran last ("recv_flush":
                      \* the recv branch, which went on to flush a full batch)
    sentAtCancel,     \* value of `sent` when the token was cancelled
    truncatedAfterCancel, \* a TRUNCATE checkpoint ran after the cancellation
    periodic,         \* periodic checkpoint ticks taken so far
    \* ---- Part II: ProxyInstance ----------------------------------------
    tool,             \* processor.tool_id() of the instance
    config,           \* contents of `config: Arc<RwLock<ToolProxyConfig>>`
    cfgVer,           \* number of update_config calls that have returned
    server_handle,    \* `server_handle`: 0 for None, else the id of the accept loop
    loops,            \* accept loops spawned so far
    nreq,             \* requests accepted so far
    req,              \* the request in the pipeline (one at a time)
    rows,             \* TokenLog rows handed to write_log by the recorders
    \* ---- Part III: functions applied to drawn inputs --------------------
    call,             \* the last application: its function, inputs and result
    \* ---- Part IV: CheckinScheduler -------------------------------------
    clock,            \* Local::now() / Utc::now(), in seconds of local time
    providers,        \* the CheckinConfig that ProviderManager stores, per provider
    runs,             \* the executions of check_and_checkin: position and clones
    checkins,         \* per local date: the successful check-ins recorded
                      \* (counted up to two)
    window_over,      \* dates on which schedule_retry found the retry interval empty
    retried_after_over, \* a check-in was attempted on a date already in window_over
    last_tick,        \* when the tick loop last entered check_and_checkin
    run_once_calls,   \* calls of run_once so far
    \* ---- Part V: remote pricing sync -----------------------------------
    remote,           \* the price mirror: its ETag and the models it serves
    pricing_files,    \* what PRICING_MANAGER has on disk: sync state, templates
    sync_runs,        \* the runs of sync_remote_prices so far, one record each
    \* ---- Part X: JsonStore / TomlStore ---------------------------------
    disk,             \* the files of one store: target, .tmp and backup
    store_calls,      \* the calls of update / write in flight: their position
    \* ---- Part XI: the life of the accept loop and of the tick loop ------
    accept_loops,     \* the accept loops spawned by start, each with its state
    start_stop,       \* the calls of ProxyInstance::start / stop in flight
    running,          \* CheckinScheduler.running: Arc<RwLock<bool>>
    tick_loops        \* the tick loops spawned by CheckinScheduler::start

ledgerVars == <<sent, channel, buffer, db, lastCheckpoint, cancelled, writerAlive,
                checkpointAlive, lastBranch, sentAtCancel, truncatedAfterCancel, periodic>>

proxyVars == <<tool, config, cfgVer, server_handle, loops, nreq, req, rows>>

callVars == <<call>>

checkinVars == <<clock, providers, runs, checkins, window_over, retried_after_over,
                 last_tick, run_once_calls>>

\* what the actions of one part leave alone
pricingVars == <<remote, pricing_files, sync_runs>>

storeVars == <<disk, store_calls>>

lifeVars == <<accept_loops, start_stop, running, tick_loops>>

outsideLedger == <<proxyVars, callVars, checkinVars, pricingVars, storeVars, lifeVars>>
outsideProxy == <<ledgerVars, callVars, checkinVars, pricingVars, storeVars, lifeVars>>
outsideCall == <<ledgerVars, proxyVars, checkinVars, pricingVars, storeVars, lifeVars>>
outsideCheckin == <<ledgerVars, proxyVars, callVars, pricingVars, storeVars, lifeVars>>
outsidePricing == <<ledgerVars, proxyVars, callVars, checkinVars, storeVars, lifeVars>>

outsideStore == <<ledgerVars, proxyVars, callVars, checkinVars, pricingVars, lifeVars>>
outsideLife == <<ledgerVars, callVars, checkinVars, pricingVars, storeVars>>

vars == <<ledgerVars, proxyVars, callVars, checkinVars, pricingVars, storeVars,
          lifeVars>>

(***************************************************************************)
(* Bounds of the model and constants of the program.                       *)
(***************************************************************************)
MaxRows == 11            \* write_log calls explored
MaxPeriodic == 1         \* periodic (5 min) checkpoint ticks explored
BatchSize == 10          \* manager.rs:82  `buffer.len() >= 10`

Range(s) == {s[i] : i \in 1..Len(s)}

IsPrefix(s, t) == Len(s) <= Len(t) /\ \A i \in 1..Len(s) : s[i] = t[i]


(***************************************************************************)
(* Option<T>: None is the empty sequence, Some(x) the one-element sequence. *)
(***************************************************************************)
None == <<>>
Some(x) == <<x>>

\* The request slot before any request has been accepted.
IdleRequest ==
    [pc |-> "idle", rid |-> 0,
     authorization |-> None, x_api_key |-> None, path |-> "", method |-> "",
     body |-> "empty",
     snap |-> None, cfgAtSnap |-> None, verAtSnap |-> 0,
     used |-> [local_api_key |-> None, real_base_url |-> None,
               real_api_key |-> None, config_name |-> None],
     processorCalled |-> FALSE, upstreamSent |-> FALSE,
     resp |-> None,
     status |-> 0, is_sse |-> FALSE,
     target_url |-> None, api_key |-> None, route |-> "none",
     received |-> <<>>, streamEnded |-> FALSE, streamError |-> FALSE,
     acc |-> <<>>, client |-> <<>>, jsonBody |-> "empty",
     recorder |-> "none", recBuf |-> <<>>, recStreamEnded |-> FALSE]

\* Part II at rest (the state Part I's specifications keep it in).
ProxyIdle ==
    /\ tool = "codex"
    /\ config = [local_api_key |-> None, real_api_key |-> None,
                 real_base_url |-> None, real_profile_name |-> None]
    /\ cfgVer = 0
    /\ server_handle = 0
    /\ loops = 0
    /\ nreq = 0
    /\ req = IdleRequest
    /\ rows = <<>>

\* Part X before any call: no file of the store exists.
StoreIdle ==
    /\ disk = <<>>
    /\ store_calls = <<>>

\* Part XI before any call of start.
LifeIdle ==
    /\ accept_loops = <<>>
    /\ start_stop = <<>>
    /\ running = FALSE
    /\ tick_loops = <<>>

\* Part III before any application.
CallIdle == call = [fn |-> "none"]

\* Part V before any sync: nothing served, nothing on disk.
PricingIdle ==
    /\ remote = <<>>
    /\ pricing_files = <<>>
    /\ sync_runs = <<>>

\* Part IV before CheckinScheduler::start: no provider, no execution.
CheckinIdle ==
    /\ clock = 0
    /\ providers = <<>>
    /\ runs = <<>>
    /\ checkins = <<>>
    /\ window_over = {}
    /\ retried_after_over = FALSE
    /\ last_tick = None
    /\ run_once_calls = 0

\* Part I at rest: the state TokenStatsManager::get leaves behind.
LedgerStart ==
    /\ sent = 0
    /\ channel = <<>>
    /\ buffer = <<>>
    /\ db = <<>>
    /\ lastCheckpoint = "none"
    /\ cancelled = FALSE
    /\ writerAlive = TRUE
    /\ checkpointAlive = TRUE
    /\ lastBranch = "none"
    /\ sentAtCancel = 0
    /\ truncatedAfterCancel = FALSE
    /\ periodic = 0

(***************************************************************************)
(* Part I.  TokenStatsManager                                              *)
(***************************************************************************)

\* flush_logs with the insert loop dropping the batch's last row
flush_logs_lossy(database, buf, use_truncate) ==
    [db |-> database \o SubSeq(buf, 1, Len(buf) - 1),
     checkpoint |-> IF use_truncate THEN "TRUNCATE" ELSE "PASSIVE",
     buffer |-> <<>>]

\* flush_logs leaving the rows in the buffer (iterating instead of draining)
flush_logs_keep(database, buf, use_truncate) ==
    [db |-> database \o buf,
     checkpoint |-> IF use_truncate THEN "TRUNCATE" ELSE "PASSIVE",
     buffer |-> buf]

\* flush_logs(db, buffer, use_truncate): drain the buffer into the database in
\* order, then checkpoint (TRUNCATE on shutdown, PASSIVE otherwise).
flush_logs(database, buf, use_truncate) ==
    [db |-> database \o buf,
     checkpoint |-> IF use_truncate THEN "TRUNCATE" ELSE "PASSIVE",
     buffer |-> <<>>]

InitLedger ==
    /\ StoreIdle
    /\ LifeIdle
    /\ LedgerStart
    /\ ProxyIdle
    /\ CallIdle
    /\ CheckinIdle
    /\ PricingIdle

\* write_log: event_sender.send(log).  The send fails (and the row is only
\* logged as an error) once the receiver has been dropped with the writer task.
write_log ==
    /\ sent < MaxRows
    /\ writerAlive
    /\ sent' = sent + 1
    /\ channel' = Append(channel, sent + 1)
    /\ UNCHANGED <<buffer, db, lastCheckpoint, cancelled, writerAlive, checkpointAlive,
                   lastBranch, sentAtCancel, truncatedAfterCancel, periodic>>
    /\ UNCHANGED outsideLedger

\* writer task, branch `Some(log) = event_receiver.recv()`
WriterRecv ==
    /\ writerAlive
    /\ channel # <<>>
    /\ LET pushed == Append(buffer, Head(channel))
           f == flush_logs(db, pushed, FALSE)
       IN  IF Len(pushed) >= BatchSize
           THEN /\ buffer' = f.buffer
                /\ db' = f.db
                /\ lastCheckpoint' = f.checkpoint
           ELSE /\ buffer' = pushed
                /\ UNCHANGED <<db, lastCheckpoint>>
    /\ channel' = Tail(channel)
    /\ lastBranch' = IF Len(Append(buffer, Head(channel))) >= BatchSize
                     THEN "recv_flush" ELSE "recv"
    /\ UNCHANGED <<sent, cancelled, writerAlive, checkpointAlive, sentAtCancel,
                   truncatedAfterCancel, periodic>>
    /\ UNCHANGED outsideLedger

\* writer task, branch `tick_interval.tick()` (every 100 ms)
WriterTick ==
    /\ writerAlive
    /\ LET f == flush_logs(db, buffer, FALSE)
       IN  IF buffer # <<>>
           THEN /\ buffer' = f.buffer
                /\ db' = f.db
                /\ lastCheckpoint' = f.checkpoint
           ELSE UNCHANGED <<buffer, db, lastCheckpoint>>
    /\ lastBranch' = "tick"
    /\ UNCHANGED <<sent, channel, cancelled, writerAlive, checkpointAlive,
                   sentAtCancel, truncatedAfterCancel, periodic>>
    /\ UNCHANGED outsideLedger

\* writer task, branch `CANCELLATION_TOKEN.cancelled()`: flush the buffer with a
\* TRUNCATE checkpoint when it is non-empty, then break.  The receiver is
\* dropped with the task, and with it whatever the channel still holds.
WriterCancelled ==
    /\ writerAlive
    /\ cancelled
    /\ LET f == flush_logs(db, buffer, TRUE)
       IN  IF buffer # <<>>
           THEN /\ buffer' = f.buffer
                /\ db' = f.db
                /\ lastCheckpoint' = f.checkpoint
                /\ truncatedAfterCancel' =
                       (truncatedAfterCancel \/ f.checkpoint = "TRUNCATE")
           ELSE UNCHANGED <<buffer, db, lastCheckpoint, truncatedAfterCancel>>
    /\ writerAlive' = FALSE
    /\ channel' = <<>>
    /\ lastBranch' = "cancelled"
    /\ UNCHANGED <<sent, cancelled, checkpointAlive, sentAtCancel, periodic>>
    /\ UNCHANGED outsideLedger

\* checkpoint task, branch `checkpoint_interval.tick()` (every 5 minutes)
CheckpointTick ==
    /\ checkpointAlive
    /\ periodic < MaxPeriodic
    /\ periodic' = periodic + 1
    /\ lastCheckpoint' = "TRUNCATE"
    /\ truncatedAfterCancel' = (truncatedAfterCancel \/ cancelled)
    /\ UNCHANGED <<sent, channel, buffer, db, cancelled, writerAlive,
                   checkpointAlive, lastBranch, sentAtCancel>>
    /\ UNCHANGED outsideLedger

\* checkpoint task, branch `CANCELLATION_TOKEN.cancelled()`
CheckpointCancelled ==
    /\ checkpointAlive
    /\ cancelled
    /\ checkpointAlive' = FALSE
    /\ UNCHANGED <<sent, channel, buffer, db, lastCheckpoint, cancelled, writerAlive,
                   lastBranch, sentAtCancel, truncatedAfterCancel, periodic>>
    /\ UNCHANGED outsideLedger

\* shutdown_token_stats_manager: CANCELLATION_TOKEN.cancel()
shutdown_token_stats_manager ==
    /\ ~cancelled
    /\ cancelled' = TRUE
    /\ sentAtCancel' = sent
    /\ truncatedAfterCancel' = FALSE
    /\ UNCHANGED <<sent, channel, buffer, db, lastCheckpoint, writerAlive,
                   checkpointAlive, lastBranch, periodic>>
    /\ UNCHANGED outsideLedger

NextLedger ==
    \/ write_log
    \/ WriterRecv
    \/ WriterTick
    \/ WriterCancelled
    \/ CheckpointTick
    \/ CheckpointCancelled
    \/ shutdown_token_stats_manager

SpecLedger == InitLedger /\ [][NextLedger]_vars

\* The tokio runtime keeps polling both background tasks: a select! branch that
\* stays ready is eventually taken.
SpecLedgerFair ==
    /\ SpecLedger
    /\ WF_vars(WriterRecv)
    /\ WF_vars(WriterTick)
    /\ WF_vars(WriterCancelled)
    /\ WF_vars(CheckpointCancelled)

(***************************************************************************)
(* Claims about the ledger writer.                                         *)
(***************************************************************************)

\* C4: after the shutdown signal, once both background tasks have terminated,
\* every row passed to write_log before the signal (buffered or still queued in
\* the channel) is in the database and a TRUNCATE checkpoint was performed.
C4_ShutdownDrainsEveryRow ==
    (cancelled /\ ~writerAlive /\ ~checkpointAlive) =>
        /\ \A r \in 1..sentAtCancel : r \in Range(db)
        /\ truncatedAfterCancel

C6_BatchAndTickFlush ==
    /\ Len(buffer) < BatchSize
    /\ lastBranch \in {"recv_flush", "tick", "cancelled"} => buffer = <<>>

C6_Witness ==
    /\ lastBranch = "recv_flush"
    /\ Len(db) = BatchSize
    /\ lastCheckpoint = "PASSIVE"

(***************************************************************************)
(* Part II.  ProxyInstance                                                 *)
(*                                                                         *)
(* Strings that the code takes apart are sequences of atoms, so that       *)
(* strip_prefix is computed: <<"Bearer ", "k1">> is the text "Bearer k1".  *)
(***************************************************************************)
MaxRequests == 2         \* requests accepted by the listener
MaxUpdates == 2          \* update_config calls
MaxChunks == 2           \* chunks of one upstream SSE stream

K1 == <<"k1">>
K2 == <<"k2">>

\* A header value: `text` is whether HeaderValue::to_str() succeeds.
Text(s) == [text |-> TRUE, s |-> s]
NotText == [text |-> FALSE, s |-> <<>>]

\* Upstream URLs: only what loop detection looks at.
Url(h, p) == [host |-> h, port |-> p]
U1 == Url("up1.example", "443")
U2 == Url("up2.example", "443")
SelfUrl == Url("127.0.0.1", "own_port")
SessionUrl == Url("session.example", "443")

ToolProxyConfig(l, k, u, n) ==
    [local_api_key |-> l, real_api_key |-> k, real_base_url |-> u,
     real_profile_name |-> n]

Tools == {"claude-code", "codex", "gemini-cli", "amp-code"}

\* ---- lines 219-233: the key the client presents -------------------------

\* str::strip_prefix
strip_prefix(s, prefix) ==
    IF Len(s) >= 1 /\ s[1] = prefix THEN Some(Tail(s)) ELSE None

\* lines 220-225: headers.get("authorization").or_else(|| headers.get("x-api-key"))
\*        .and_then(|v| v.to_str().ok()).unwrap_or("")
auth_header(authorization, x_api_key) ==
    LET h == IF authorization # None THEN authorization ELSE x_api_key
    IN  IF h = None THEN <<>>
        ELSE IF h[1].text THEN h[1].s ELSE <<>>

\* lines 227-233
provided_key(header) ==
    IF strip_prefix(header, "Bearer ") # None
    THEN strip_prefix(header, "Bearer ")[1]
    ELSE IF strip_prefix(header, "x-api-key ") # None
         THEN strip_prefix(header, "x-api-key ")[1]
         ELSE header

\* lines 235-239 with the comparison skipped when no key was presented
key_rejected_lenient(cfg, key) ==
    cfg.local_api_key # None /\ key # <<>> /\ key # cfg.local_api_key[1]

\* lines 235-239: `if let Some(local_key) = &proxy_config.local_api_key`
key_rejected(cfg, key) ==
    cfg.local_api_key # None /\ key # cfg.local_api_key[1]

\* ---- responses the proxy builds itself ----------------------------------
\* utils/error_responses.rs is not part of the sources at hand; the statuses
\* are those of spec section 4.1 (401, 508) and section 7 (500).  The response
\* for a missing upstream configuration has no status stated anywhere.
unauthorized == [kind |-> "unauthorized", status |-> 401]
configuration_missing == [kind |-> "configuration_missing"]
proxy_loop_detected == [kind |-> "proxy_loop_detected", status |-> 508]
internal_error == [kind |-> "internal_error", status |-> 500]
\* lines 247-265
count_tokens_denied == [kind |-> "permission_error", status |-> 403]
\* lines 337-353, 425-426, 461-463
passthrough(status) == [kind |-> "upstream", status |-> status]

\* utils/loop_detector.rs (not at hand): spec section 4.1 step 5.
is_proxy_loop(target_url) ==
    target_url.host = "127.0.0.1" /\ target_url.port = "own_port"

\* only the 4xx statuses taken for errors
is_http_error_4xx_only(status) == status >= 400 /\ status < 500

\* StatusCode::is_client_error() || is_server_error()
is_http_error(status) == status >= 400 /\ status < 600

\* ---- the recorder: what one record_request_log call hands to write_log ---

\* A TokenLog row, reduced to the fields the claims speak of (rid is the
\* request the row was written for).
TokenLog(rid, tool_type, status, error_type, response_type, config_name) ==
    [rid |-> rid, tool_type |-> tool_type, status |-> status,
     error_type |-> error_type, response_type |-> response_type,
     config_name |-> config_name]

\* A response body is, on the SSE path, the sequence of chunks collected (each
\* chunk one line: kind "id" a data line whose event carries the message /
\* response id, "data" any other data line, "done" the line `data: [DONE]`,
\* "text" a line without the `data: ` prefix) and, on the JSON path, one of
\* "empty", "garbage" (not JSON), "json_no_id" (JSON without id) and "json_ok".
\* A request body is "empty" or "json" (JSON with a model and a session id).
ChunkKinds == {"id", "data", "done", "text"}
JsonBodies == {"empty", "garbage", "json_no_id", "json_ok"}

body_is_empty(body, is_sse) == IF is_sse THEN body = <<>> ELSE body = "empty"

IsDataLine(c) == c.kind \in {"id", "data", "done"}
IsEventLine(c) == c.kind \in {"id", "data"}
CarriesId(c) == c.kind = "id"

\* StatusCode::from_u16(s).unwrap_or(INTERNAL_SERVER_ERROR)
status_code(s) == IF s >= 100 /\ s < 1000 THEN s ELSE 500

\* ResponseParser::parse
parse(body, response_status, is_sse) ==
    IF body_is_empty(body, is_sse) \/ response_status = 0
    THEN [tag |-> "Empty"]
    ELSE IF is_sse
         THEN LET lines == SelectSeq(body, IsEventLine)
              IN  IF lines = <<>>
                  THEN [tag |-> "ParseError", response_type |-> "sse"]
                  ELSE [tag |-> "Sse", data_lines |-> lines]
         ELSE IF body \in {"json_no_id", "json_ok"}
              THEN [tag |-> "Json", data |-> body]
              ELSE [tag |-> "ParseError", response_type |-> "json"]

\* ToolProcessor::process_sse_response succeeds: the request body parses and
\* names a model, and some event supplies the id.
process_sse_ok(request_body, lines) ==
    request_body = "json" /\ \E i \in 1..Len(lines) : CarriesId(lines[i])

\* ToolProcessor::process_json_response succeeds: model, id and usage present.
process_json_ok(request_body, data) == data = "json_ok"

\* create_logger / create_processor
create_logger_ok(tool_id) == tool_id \in {"claude-code", "codex"}

\* TokenLogger::log_failed_request followed by LogRecorder::write_log
failed_row(ctx, error_type) ==
    <<TokenLog(ctx.rid, ctx.tool_id, "failed", Some(error_type), "unknown",
               ctx.config_name)>>

success_row(ctx, response_type) ==
    <<TokenLog(ctx.rid, ctx.tool_id, "success", None, response_type,
               ctx.config_name)>>

\* LogRecorder::record: the rows written (every arm starts with
\* `create_logger(&context.tool_id)?`, which returns the error and writes
\* nothing for a tool without a logger).
record(ctx, response_status, parsed) ==
    IF ~create_logger_ok(ctx.tool_id) THEN <<>>
    ELSE IF is_http_error(status_code(response_status))
    THEN failed_row(ctx, "upstream_error")
    ELSE CASE parsed.tag = "Sse" ->
                IF process_sse_ok(ctx.request_body, parsed.data_lines)
                THEN success_row(ctx, "sse")
                ELSE failed_row(ctx, "parse_error")
           [] parsed.tag = "Json" ->
                IF process_json_ok(ctx.request_body, parsed.data)
                THEN success_row(ctx, "json")
                ELSE failed_row(ctx, "parse_error")
           [] parsed.tag = "Empty" -> failed_row(ctx, "upstream_error")
           [] parsed.tag = "ParseError" -> failed_row(ctx, "parse_error")

\* RequestLogContext::from_request
RequestLogContext(tool_id, rid, config_name, request_body) ==
    [tool_id |-> tool_id, rid |-> rid, config_name |-> config_name,
     request_body |-> request_body]

\* CodexHeadersProcessor::record_request_log
codex_record_request_log(rid, config_name, request_body, response_status, response_body, is_sse) ==
    record(RequestLogContext("codex", rid, config_name, request_body),
           response_status, parse(response_body, response_status, is_sse))

\* TokenStatsManager::log_request / log_failed_request as called by the Claude
\* processor: not in manager.rs as it stands; taken to extract the tokens with
\* the Claude token processor and to write the one row they return.
manager_log_request_ok(request_body, body, is_sse) ==
    IF is_sse
    THEN process_sse_ok(request_body, SelectSeq(body, IsDataLine))
    ELSE process_json_ok(request_body, body)

manager_log_failed_request(rid, config_name, error_type, response_type) ==
    <<TokenLog(rid, "claude-code", "failed", Some(error_type), response_type,
               config_name)>>

\* ClaudeHeadersProcessor::record_request_log
claude_record_request_log(rid, config_name, request_body, response_status, response_body, is_sse) ==
    LET response_type == IF is_sse THEN "sse" ELSE "json"
    IN  IF ~is_http_error(status_code(response_status))
        THEN IF ~is_sse /\ response_body \notin {"json_no_id", "json_ok"}
             THEN <<>>                    \* line 206: serde_json::from_slice(..)?
             ELSE IF manager_log_request_ok(request_body, response_body, is_sse)
                  THEN <<TokenLog(rid, "claude-code", "success", None,
                                  response_type, config_name)>>
                  ELSE manager_log_failed_request(rid, config_name,
                                                  "parse_error", response_type)
        ELSE manager_log_failed_request(rid, config_name, "upstream_error",
                                        response_type)

\* RequestProcessor::record_request_log, the trait's default (headers/mod.rs is
\* not at hand): spec section 4.2, "defaults route through the recorder".
default_record_request_log(tool_id, rid, config_name, request_body, response_status, response_body, is_sse) ==
    record(RequestLogContext(tool_id, rid, config_name, request_body),
           response_status, parse(response_body, response_status, is_sse))

\* processor.record_request_log(...) for the instance's processor
record_request_log(tool_id, rid, config_name, request_body, response_status, response_body, is_sse) ==
    CASE tool_id = "claude-code" ->
            claude_record_request_log(rid, config_name, request_body,
                                      response_status, response_body, is_sse)
      [] tool_id = "codex" ->
            codex_record_request_log(rid, config_name, request_body,
                                     response_status, response_body, is_sse)
      [] OTHER ->
            default_record_request_log(tool_id, rid, config_name, request_body,
                                       response_status, response_body, is_sse)

\* ---- the request processors' routing ------------------------------------

A1 == <<"upstream-key-1">>
A2 == <<"upstream-key-2">>
SessionKey == <<"session-key">>
ProfileKey == <<"profile-key">>
ProfileUrl == Url("profile.example", "443")

ProcessedRequest(target_url, api_key, route) ==
    [ok |-> TRUE, target_url |-> Some(target_url), api_key |-> Some(api_key),
     route |-> route]
ProcessError == [ok |-> FALSE, target_url |-> None, api_key |-> None,
                 route |-> "none"]

\* step 0 with the override taken for any stored profile name
with_session_any_profile(base_url, api_key, body, session, route) ==
    IF /\ body = "json"
       /\ session # None
       /\ session[1].url # None
       /\ session[1].api_key # None
    THEN ProcessedRequest(session[1].url[1], session[1].api_key[1], "session")
    ELSE ProcessedRequest(base_url, api_key, route)

\* Step 0 of the Claude and Codex processors: a session stored as "custom"
\* with a URL and a key replaces the URL and key handed in.  `session` is what
\* SESSION_MANAGER.get_session_config returns for the id in the body (None:
\* no such session); a body that is not JSON carries no id.
with_session(base_url, api_key, body, session, route) ==
    IF /\ body = "json"
       /\ session # None
       /\ session[1].config_name = "custom"
       /\ session[1].url # None
       /\ session[1].api_key # None
    THEN ProcessedRequest(session[1].url[1], session[1].api_key[1], "session")
    ELSE ProcessedRequest(base_url, api_key, route)

\* RequestProcessor::process_outgoing_request of the four processors.  `amp`
\* is what the Amp processor resolves for the API type it detects: None when
\* no profile is selected for it, else the profile and the delegate.
process_outgoing_request(tool_id, base_url, api_key, body, session, amp) ==
    CASE tool_id \in {"claude-code", "codex"} ->
            with_session(base_url, api_key, body, session, "config")
      [] tool_id = "gemini-cli" ->
            ProcessedRequest(base_url, api_key, "config")
      [] tool_id = "amp-code" ->
            IF amp = None THEN ProcessError
            ELSE IF amp[1].api_type = "Gemini"
                 THEN ProcessedRequest(amp[1].base_url, amp[1].api_key,
                                       "profile")
                 ELSE with_session(amp[1].base_url, amp[1].api_key, body,
                                   session, "profile")

\* real_profile_name.clone().unwrap_or_else(|| "default".to_string())
config_name_of(cfg) ==
    IF cfg.real_profile_name = None THEN "default" ELSE cfg.real_profile_name[1]

\* the request's config: re-read from the shared cell at every use
proxy_config_reread(r) == config

\* lines 211-217: `proxy_config` is the clone taken under the read lock; every
\* later use in the handler reads that clone.
proxy_config(r) == r.snap[1]

\* the tee with the forwarded frame rebuilt from the accumulator's tail
mapped_stream_rebuilt(chunks, result) ==
    [chunks |-> IF result.ok THEN Append(chunks, result.chunk) ELSE chunks,
     item |-> IF result.ok /\ chunks # <<>>
              THEN [ok |-> TRUE, chunk |-> chunks[Len(chunks)]]
              ELSE result]

\* lines 374-383: the closure of stream.map; pushes a clone of an Ok chunk and
\* hands the item on (Frame::data for a chunk, the boxed error otherwise).
mapped_stream(chunks, result) ==
    [chunks |-> IF result.ok THEN Append(chunks, result.chunk) ELSE chunks,
     item |-> result]

\* ---- the inputs a specification draws from -------------------------------

CountTokensPath == "/v1/messages/count_tokens"

\* the interception switched off
count_tokens_intercepted_never(path) == FALSE

\* line 248: `if path == "/v1/messages/count_tokens"`
count_tokens_intercepted(path) == path = CountTokensPath

Finish(r, response) == [r EXCEPT !.pc = "done", !.resp = Some(response)]

\* ---- ProxyInstance::start / stop / update_config -------------------------

MaxStarts == 2           \* accept loops spawned by start

\* lines 51-143 (the successful path; already running or bind failure return
\* an error and change nothing).
start ==
    /\ server_handle = 0
    /\ loops < MaxStarts
    /\ loops' = loops + 1
    /\ server_handle' = loops + 1
    /\ UNCHANGED <<tool, config, cfgVer, nreq, req, rows>>
    /\ UNCHANGED outsideProxy

\* lines 146-158: take the handle and abort the accept loop; connections
\* already being served run on their own tasks.
stop ==
    /\ server_handle # 0
    /\ server_handle' = 0
    /\ UNCHANGED <<tool, config, cfgVer, loops, nreq, req, rows>>
    /\ UNCHANGED outsideProxy

\* update_config that also tears the listener down
update_config_restarting(Configs) ==
    /\ cfgVer < MaxUpdates
    /\ \E new_config \in Configs : config' = new_config
    /\ cfgVer' = cfgVer + 1
    /\ server_handle' = 0
    /\ UNCHANGED <<tool, loops, nreq, req, rows>>
    /\ UNCHANGED outsideProxy

\* lines 174-179
update_config(Configs) ==
    /\ cfgVer < MaxUpdates
    /\ \E new_config \in Configs : config' = new_config
    /\ cfgVer' = cfgVer + 1
    /\ UNCHANGED <<tool, server_handle, loops, nreq, req, rows>>
    /\ UNCHANGED outsideProxy

\* ---- one request through handle_request ----------------------------------

\* listener.accept() and the connection task: a request arrives.
Accept(E) ==
    /\ server_handle # 0
    /\ nreq < MaxRequests
    /\ req.pc \in {"idle", "done"}
    /\ req.recorder # "pending"
    /\ \E a \in E.authorization, x \in E.x_api_key, p \in E.path,
          m \in E.method :
          req' = [IdleRequest EXCEPT !.pc = "entry", !.rid = nreq + 1,
                                     !.authorization = a, !.x_api_key = x,
                                     !.path = p, !.method = m]
    /\ nreq' = nreq + 1
    /\ UNCHANGED <<tool, config, cfgVer, server_handle, loops, rows>>
    /\ UNCHANGED outsideProxy

\* lines 211-283: snapshot, local key check, count_tokens interception, up to
\* the first await after the snapshot (collecting the body).
HandleEntry ==
    /\ req.pc = "entry"
    /\ LET cfg == config
           seen == [req EXCEPT !.cfgAtSnap = Some(config),
                               !.verAtSnap = cfgVer]
       IN  IF cfg.real_api_key = None \/ cfg.real_base_url = None
           THEN req' = Finish(seen, configuration_missing)
           ELSE LET r == [seen EXCEPT !.snap = Some(cfg)]
                    key == provided_key(auth_header(r.authorization,
                                                    r.x_api_key))
                    checked == [r EXCEPT !.used.local_api_key =
                                   Some(proxy_config(r).local_api_key)]
                IN  IF key_rejected(proxy_config(r), key)
                    THEN req' = Finish(checked, unauthorized)
                    ELSE IF count_tokens_intercepted(r.path)
                    THEN req' = Finish(checked, count_tokens_denied)
                    ELSE IF r.method \in {"GET", "HEAD"}
                    THEN req' = [checked EXCEPT !.pc = "process"]
                    ELSE req' = [checked EXCEPT !.pc = "body"]
    /\ UNCHANGED <<tool, config, cfgVer, server_handle, loops, nreq, rows>>
    /\ UNCHANGED outsideProxy

\* line 284: req.collect().await succeeds
ReadBody(E) ==
    /\ req.pc = "body"
    /\ \E b \in E.body : req' = [req EXCEPT !.pc = "process", !.body = b]
    /\ UNCHANGED <<tool, config, cfgVer, server_handle, loops, nreq, rows>>
    /\ UNCHANGED outsideProxy

\* line 284: req.collect().await? fails; handle_request answers internal_error
ReadBodyFails ==
    /\ req.pc = "body"
    /\ req' = Finish(req, internal_error)
    /\ UNCHANGED <<tool, config, cfgVer, server_handle, loops, nreq, rows>>
    /\ UNCHANGED outsideProxy

\* loop detection applied to the configured base URL instead of the target
loop_checked_url_configured(r, processed) == proxy_config(r).real_base_url[1]

\* line 303: the URL handed to loop_detector::is_proxy_loop
loop_checked_url(r, processed) == processed.target_url[1]

\* lines 276-329: the processor, loop detection, the upstream request sent
ProcessOutgoing(E) ==
    /\ req.pc = "process"
    /\ \E session \in E.session, amp \in E.amp :
         LET base == proxy_config(req).real_base_url
             key == proxy_config(req).real_api_key
             processed == process_outgoing_request(tool, base[1], key[1],
                                                   req.body, session, amp)
             r == [req EXCEPT !.used.real_base_url = Some(base),
                              !.used.real_api_key = Some(key),
                              !.processorCalled = TRUE,
                              !.route = processed.route,
                              !.target_url = processed.target_url,
                              !.api_key = processed.api_key]
         IN  IF ~processed.ok
             THEN req' = Finish(r, internal_error)
             ELSE IF is_proxy_loop(loop_checked_url(r, processed))
             THEN req' = Finish(r, proxy_loop_detected)
             ELSE req' = [r EXCEPT !.pc = "upstream", !.upstreamSent = TRUE]
    /\ UNCHANGED <<tool, config, cfgVer, server_handle, loops, nreq, rows>>
    /\ UNCHANGED outsideProxy

\* lines 329-334: send() fails; handle_request answers internal_error
UpstreamFails ==
    /\ req.pc = "upstream"
    /\ req' = Finish(req, internal_error)
    /\ UNCHANGED <<tool, config, cfgVer, server_handle, loops, nreq, rows>>
    /\ UNCHANGED outsideProxy

\* lines 336-426: the upstream's status and headers arrive.  On the SSE path
\* the recorder task is spawned with its 2 s sleep and the streaming response
\* is returned; on the JSON path the handler goes on to read the body.
UpstreamResponds(E) ==
    /\ req.pc = "upstream"
    /\ \E st \in E.status, sse \in E.is_sse :
         IF sse
         THEN req' = [req EXCEPT !.pc = "streaming", !.status = st,
                                 !.is_sse = TRUE,
                                 !.used.config_name =
                                     Some(config_name_of(proxy_config(req))),
                                 !.recorder = "pending",
                                 !.resp = Some(passthrough(st))]
         ELSE req' = [req EXCEPT !.pc = "json_body", !.status = st]
    /\ UNCHANGED <<tool, config, cfgVer, server_handle, loops, nreq, rows>>
    /\ UNCHANGED outsideProxy

\* One item of upstream_res.bytes_stream() passes through the mapped stream
\* and its frame is written to the client.
Forward(r, result) ==
    LET out == mapped_stream(r.acc, result)
    IN  [r EXCEPT !.acc = out.chunks,
                  !.client = IF out.item.ok THEN Append(@, out.item.chunk)
                             ELSE @]

\* lines 371-383, 425: the upstream yields a chunk
StreamChunk(E) ==
    /\ req.pc = "streaming"
    /\ Len(req.received) < MaxChunks
    /\ \E k \in E.chunk :
         LET chunk == [n |-> Len(req.received) + 1, kind |-> k]
         IN  req' = Forward([req EXCEPT !.received = Append(@, chunk)],
                            [ok |-> TRUE, chunk |-> chunk])
    /\ UNCHANGED <<tool, config, cfgVer, server_handle, loops, nreq, rows>>
    /\ UNCHANGED outsideProxy

\* the upstream stream ends
StreamEnds ==
    /\ req.pc = "streaming"
    /\ req' = [req EXCEPT !.pc = "done", !.streamEnded = TRUE]
    /\ UNCHANGED <<tool, config, cfgVer, server_handle, loops, nreq, rows>>
    /\ UNCHANGED outsideProxy

\* the upstream stream yields an error: nothing is pushed, the error is handed
\* to the response body, which ends there
StreamErrors ==
    /\ req.pc = "streaming"
    /\ req' = [Forward(req, [ok |-> FALSE, chunk |-> <<>>])
                 EXCEPT !.pc = "done", !.streamEnded = TRUE,
                        !.streamError = TRUE]
    /\ UNCHANGED <<tool, config, cfgVer, server_handle, loops, nreq, rows>>
    /\ UNCHANGED outsideProxy

\* lines 391-423: the spawned task wakes 2 s after it was spawned, clones the
\* accumulator as it is then, concatenates and calls record_request_log.  The
\* stream's pace is the upstream's: the wake-up may come before, between or
\* after its chunks.
SettleTimer ==
    /\ req.recorder = "pending"
    /\ req.is_sse
    /\ LET full_data == req.acc
       IN  /\ rows' = rows \o record_request_log(tool, req.rid,
                                 req.used.config_name[1], req.body,
                                 req.status, full_data, TRUE)
           /\ req' = [req EXCEPT !.recorder = "done", !.recBuf = full_data,
                                 !.recStreamEnded = req.streamEnded]
    /\ UNCHANGED <<tool, config, cfgVer, server_handle, loops, nreq>>
    /\ UNCHANGED outsideProxy

\* lines 428-463: upstream_res.bytes().await succeeds; the recorder task is
\* spawned and the body returned to the client
JsonBodyRead(E) ==
    /\ req.pc = "json_body"
    /\ \E b \in E.json :
         req' = [req EXCEPT !.pc = "done", !.jsonBody = b,
                            !.used.config_name =
                                Some(config_name_of(proxy_config(req))),
                            !.recorder = "pending",
                            !.resp = Some(passthrough(req.status))]
    /\ UNCHANGED <<tool, config, cfgVer, server_handle, loops, nreq, rows>>
    /\ UNCHANGED outsideProxy

\* line 429: upstream_res.bytes().await? fails; handle_request answers
\* internal_error and no recorder task exists
JsonBodyFails ==
    /\ req.pc = "json_body"
    /\ req' = Finish(req, internal_error)
    /\ UNCHANGED <<tool, config, cfgVer, server_handle, loops, nreq, rows>>
    /\ UNCHANGED outsideProxy

\* lines 444-459: the spawned recorder task of the JSON path runs
JsonRecorder ==
    /\ req.recorder = "pending"
    /\ ~req.is_sse
    /\ rows' = rows \o record_request_log(tool, req.rid,
                           req.used.config_name[1], req.body, req.status,
                           req.jsonBody, FALSE)
    /\ req' = [req EXCEPT !.recorder = "done"]
    /\ UNCHANGED <<tool, config, cfgVer, server_handle, loops, nreq>>
    /\ UNCHANGED outsideProxy

\* ---- specifications of Part II -------------------------------------------

CustomSession == Some([config_name |-> "custom", url |-> Some(SessionUrl),
                       api_key |-> Some(SessionKey)])
GlobalSession == Some([config_name |-> "global", url |-> None,
                       api_key |-> None])
AmpProfile(api_type) == Some([api_type |-> api_type, base_url |-> ProfileUrl,
                              api_key |-> ProfileKey])
\* a session and an Amp profile whose URL is the proxy's own listener
SelfSession == Some([config_name |-> "custom", url |-> Some(SelfUrl),
                     api_key |-> Some(SessionKey)])
SelfAmpProfile == Some([api_type |-> "Codex", base_url |-> SelfUrl,
                        api_key |-> ProfileKey])

\* The response side in full, one client key.
ProxyEnv ==
    [authorization |-> {None}, x_api_key |-> {Some(Text(K1))},
     path |-> {"/v1/messages"}, method |-> {"GET", "POST"},
     body |-> {"empty", "json"},
     session |-> {None, CustomSession, GlobalSession, SelfSession},
     amp |-> {None, AmpProfile("Claude"), AmpProfile("Gemini"),
              SelfAmpProfile},
     status |-> {200, 429}, is_sse |-> BOOLEAN,
     chunk |-> ChunkKinds, json |-> JsonBodies]

ProxyConfigs ==
    {ToolProxyConfig(Some(K1), Some(A1), Some(U1), Some("p1")),
     ToolProxyConfig(None, Some(A1), Some(SelfUrl), None)}

InitProxy ==
    /\ StoreIdle
    /\ LifeIdle
    /\ LedgerStart
    /\ CallIdle
    /\ CheckinIdle
    /\ PricingIdle
    /\ tool \in Tools
    /\ config \in ProxyConfigs
    /\ cfgVer = 0
    /\ server_handle = 0
    /\ loops = 0
    /\ nreq = 0
    /\ req = IdleRequest
    /\ rows = <<>>

NextProxy ==
    \/ start
    \/ Accept(ProxyEnv)
    \/ HandleEntry
    \/ ReadBody(ProxyEnv)
    \/ ReadBodyFails
    \/ ProcessOutgoing(ProxyEnv)
    \/ UpstreamFails
    \/ UpstreamResponds(ProxyEnv)
    \/ StreamChunk(ProxyEnv)
    \/ StreamEnds
    \/ StreamErrors
    \/ SettleTimer
    \/ JsonBodyRead(ProxyEnv)
    \/ JsonBodyFails
    \/ JsonRecorder

SpecProxy == InitProxy /\ [][NextProxy]_vars

\* The request side in full, one well-formed upstream response.
AuthEnv ==
    [authorization |-> {None, Some(NotText),
                        Some(Text(<<"Bearer ">> \o K1)),
                        Some(Text(<<"Bearer ">> \o K2)),
                        Some(Text(<<"x-api-key ">> \o K1)),
                        Some(Text(K1))},
     x_api_key |-> {None, Some(NotText), Some(Text(K1)), Some(Text(K2))},
     path |-> {"/v1/messages", CountTokensPath},
     method |-> {"GET", "POST"},
     body |-> {"json"},
     session |-> {None},
     amp |-> {AmpProfile("Claude")},
     status |-> {200}, is_sse |-> BOOLEAN,
     chunk |-> {"id"}, json |-> {"json_ok"}]

AuthConfigs ==
    {ToolProxyConfig(l, k, u, None) :
        l \in {None, Some(K1)}, k \in {None, Some(A1)},
        u \in {None, Some(U1)}}

InitAuth ==
    /\ StoreIdle
    /\ LifeIdle
    /\ LedgerStart
    /\ CallIdle
    /\ CheckinIdle
    /\ PricingIdle
    /\ tool \in Tools
    /\ config \in AuthConfigs
    /\ cfgVer = 0
    /\ server_handle = 0
    /\ loops = 0
    /\ nreq = 0
    /\ req = IdleRequest
    /\ rows = <<>>

NextAuth ==
    \/ start
    \/ Accept(AuthEnv)
    \/ HandleEntry
    \/ ReadBody(AuthEnv)
    \/ ReadBodyFails
    \/ ProcessOutgoing(AuthEnv)
    \/ UpstreamFails
    \/ UpstreamResponds(AuthEnv)
    \/ StreamChunk(AuthEnv)
    \/ StreamEnds
    \/ StreamErrors
    \/ SettleTimer
    \/ JsonBodyRead(AuthEnv)
    \/ JsonBodyFails
    \/ JsonRecorder

SpecAuth == InitAuth /\ [][NextAuth]_vars

\* Reconfiguration while requests are served.
ReconfigConfigs ==
    {ToolProxyConfig(Some(K1), Some(A1), Some(U1), Some("p1")),
     ToolProxyConfig(Some(K2), Some(A2), Some(U2), Some("p2")),
     ToolProxyConfig(None, None, None, None)}

ReconfigEnv ==
    [authorization |-> {Some(Text(<<"Bearer ">> \o K1)),
                        Some(Text(<<"Bearer ">> \o K2))},
     x_api_key |-> {None},
     path |-> {"/v1/responses"}, method |-> {"POST"},
     body |-> {"json"},
     session |-> {None, CustomSession},
     amp |-> {AmpProfile("Codex")},
     status |-> {200}, is_sse |-> BOOLEAN,
     chunk |-> {"id"}, json |-> {"json_ok"}]

InitReconfig ==
    /\ StoreIdle
    /\ LifeIdle
    /\ LedgerStart
    /\ CallIdle
    /\ CheckinIdle
    /\ PricingIdle
    /\ tool \in {"codex", "amp-code"}
    /\ config \in ReconfigConfigs
    /\ cfgVer = 0
    /\ server_handle = 0
    /\ loops = 0
    /\ nreq = 0
    /\ req = IdleRequest
    /\ rows = <<>>

NextReconfig ==
    \/ start
    \/ stop
    \/ update_config(ReconfigConfigs)
    \/ Accept(ReconfigEnv)
    \/ HandleEntry
    \/ ReadBody(ReconfigEnv)
    \/ ReadBodyFails
    \/ ProcessOutgoing(ReconfigEnv)
    \/ UpstreamFails
    \/ UpstreamResponds(ReconfigEnv)
    \/ StreamChunk(ReconfigEnv)
    \/ StreamEnds
    \/ StreamErrors
    \/ SettleTimer
    \/ JsonBodyRead(ReconfigEnv)
    \/ JsonBodyFails
    \/ JsonRecorder

SpecReconfig == InitReconfig /\ [][NextReconfig]_vars

\* ---- claims about the request pipeline -----------------------------------

\* C1: every request forwarded upstream for which an upstream response was
\* received produces exactly one ledger row - never two at any time, and one
\* once its recorder has run - on the SSE and the JSON path, for every status,
\* body and tool.
C1_ExactlyOneRowPerResponse ==
    LET mine == {i \in 1..Len(rows) : rows[i].rid = req.rid}
    IN  /\ Cardinality(mine) <= 1
        /\ (req.upstreamSent /\ req.recorder = "done") =>
               Cardinality(mine) = 1

\* C2: on the SSE path the recorder is invoked only after the upstream stream
\* has ended, and the buffer it is given is every chunk received from
\* upstream, however long the stream lasts.
C2_RecorderAfterStreamEnd ==
    (req.is_sse /\ req.recorder = "done") =>
        /\ req.recStreamEnded
        /\ req.recBuf = req.received

\* C3: for every upstream SSE stream the chunks delivered to the client are,
\* at every moment, exactly the chunks received from upstream, in order,
\* without loss or duplication, and the accumulator holds the same chunks.
C3_ClientBytesEqualUpstreamBytes ==
    req.is_sse =>
        /\ req.client = req.received
        /\ req.acc = req.received

C3_Witness ==
    /\ req.is_sse
    /\ req.streamEnded
    /\ ~req.streamError
    /\ Len(req.received) >= 2
    /\ req.client = req.received

\* C7: update_config never stops or restarts the listener (the handle stays
\* set and the accept loop stays the same one), and a request that reads the
\* config cell afterwards is answered from the cell's new content: it is
\* refused for a missing upstream, authenticated against the local key and
\* routed to the base URL of exactly that content.
C7_UpdateKeepsListenerAndIsSeen ==
    /\ [][ /\ (cfgVer' # cfgVer) =>
                /\ server_handle' = server_handle
                /\ loops' = loops
           /\ (req.pc = "entry" /\ req'.pc # "entry") =>
                IF config.real_api_key = None \/ config.real_base_url = None
                THEN req'.resp = Some(configuration_missing)
                ELSE /\ req'.snap = Some(config)
                     /\ (req'.resp # None /\ req'.resp[1].kind = "unauthorized")
                          <=> /\ config.local_api_key # None
                              /\ provided_key(auth_header(req.authorization,
                                                          req.x_api_key))
                                   # config.local_api_key[1]
         ]_vars
    /\ [](req.upstreamSent /\ req.route = "config" =>
              req.target_url = req.snap[1].real_base_url)

C7_Witness ==
    /\ cfgVer >= 1
    /\ server_handle = 1
    /\ req.verAtSnap = cfgVer
    /\ req.snap = Some(config)
    /\ req.upstreamSent
    /\ req.route = "config"
    /\ req.target_url = config.real_base_url

\* C8: whatever update_config calls interleave with a request, the local key
\* it was checked against, the base URL and API key handed to the processor and
\* the profile name given to the recorder and written in its row are all the
\* fields of the one config version that was current when it read the cell.
C8_OneConfigVersionPerRequest ==
    req.snap # None =>
        LET c == req.cfgAtSnap[1]
        IN  /\ req.used.local_api_key # None =>
                   req.used.local_api_key[1] = c.local_api_key
            /\ req.used.real_base_url # None =>
                   req.used.real_base_url[1] = c.real_base_url
            /\ req.used.real_api_key # None =>
                   req.used.real_api_key[1] = c.real_api_key
            /\ req.used.config_name # None =>
                   req.used.config_name[1] = config_name_of(c)
            /\ \A i \in 1..Len(rows) :
                   rows[i].rid = req.rid =>
                       rows[i].config_name = config_name_of(c)

C8_Witness ==
    /\ req.snap # None
    /\ cfgVer > req.verAtSnap
    /\ config.local_api_key # req.snap[1].local_api_key
    /\ config.real_base_url # req.snap[1].real_base_url
    /\ config.real_profile_name # req.snap[1].real_profile_name
    /\ req.used.real_base_url # None
    /\ req.used.config_name # None
    /\ \E i \in 1..Len(rows) : rows[i].rid = req.rid

\* C9 as stated: for a proxy whose config has a local secret, a request whose
\* presented key (scheme stripped) differs from the secret is answered 401,
\* its processor is never invoked, nothing is sent upstream and no row is
\* written.
C9_WrongKeyAnswered401 ==
    (/\ req.cfgAtSnap # None
     /\ req.cfgAtSnap[1].local_api_key # None
     /\ provided_key(auth_header(req.authorization, req.x_api_key))
          # req.cfgAtSnap[1].local_api_key[1]) =>
        /\ req.resp = Some(unauthorized)
        /\ ~req.processorCalled
        /\ ~req.upstreamSent
        /\ \A i \in 1..Len(rows) : rows[i].rid # req.rid

\* C9, amended: the same, with 401 the answer when the config also names an
\* upstream URL and key; when it does not, the request is refused with the
\* configuration-missing response before any key is looked at.  In both cases
\* the processor is never invoked, nothing is sent upstream and no row is
\* written.
C9_WrongKeyRefused ==
    (/\ req.cfgAtSnap # None
     /\ req.cfgAtSnap[1].local_api_key # None
     /\ provided_key(auth_header(req.authorization, req.x_api_key))
          # req.cfgAtSnap[1].local_api_key[1]) =>
        /\ req.resp = IF \/ req.cfgAtSnap[1].real_api_key = None
                         \/ req.cfgAtSnap[1].real_base_url = None
                      THEN Some(configuration_missing)
                      ELSE Some(unauthorized)
        /\ ~req.processorCalled
        /\ ~req.upstreamSent
        /\ \A i \in 1..Len(rows) : rows[i].rid # req.rid

C9_Witness ==
    /\ req.resp = Some(unauthorized)
    /\ req.cfgAtSnap[1].local_api_key = Some(K1)
    /\ req.authorization = None
    /\ req.x_api_key = Some(Text(K2))

\* C10: a request is not answered 401 whenever its `Authorization: Bearer`
\* value or its `x-api-key` value equals the local secret, whichever of the two
\* headers are present.
C10_EitherHeaderAccepted ==
    (/\ req.cfgAtSnap # None
     /\ req.cfgAtSnap[1].local_api_key # None
     /\ \/ req.authorization =
             Some(Text(<<"Bearer ">> \o req.cfgAtSnap[1].local_api_key[1]))
        \/ req.x_api_key = Some(Text(req.cfgAtSnap[1].local_api_key[1]))) =>
        req.resp # Some(unauthorized)

\* C11: every request that passed the local key check and whose path is
\* exactly /v1/messages/count_tokens is answered 403 with the fixed
\* permission_error body, whatever its method, headers or tool; its processor
\* is never invoked, nothing is sent upstream and no row is written.
C11_CountTokensDenied ==
    (/\ req.snap # None
     /\ req.path = CountTokensPath
     /\ \/ req.snap[1].local_api_key = None
        \/ provided_key(auth_header(req.authorization, req.x_api_key))
             = req.snap[1].local_api_key[1]) =>
        /\ req.pc = "done"
        /\ req.resp = Some([kind |-> "permission_error", status |-> 403])
        /\ ~req.processorCalled
        /\ ~req.upstreamSent
        /\ \A i \in 1..Len(rows) : rows[i].rid # req.rid

C11_Witness ==
    /\ req.path = CountTokensPath
    /\ req.snap # None
    /\ req.snap[1].local_api_key = Some(K1)
    /\ req.x_api_key = Some(Text(K1))
    /\ req.authorization = None
    /\ req.method = "GET"
    /\ req.resp = Some(count_tokens_denied)

\* C12: if the target URL the processor produced - from the configured base
\* URL, a session override or an Amp profile - is a loopback host on the
\* listener's own port, the response is 508, nothing is sent upstream and no
\* row is written.
C12_LoopAnswered508 ==
    (req.target_url # None /\ req.target_url[1] = SelfUrl) =>
        /\ req.pc = "done"
        /\ req.resp # None
        /\ req.resp[1].kind = "proxy_loop_detected"
        /\ req.resp[1].status = 508
        /\ ~req.upstreamSent
        /\ req.recorder = "none"
        /\ \A i \in 1..Len(rows) : rows[i].rid # req.rid

C12_Witness ==
    /\ req.target_url = Some(SelfUrl)
    /\ req.route = "session"
    /\ req.snap[1].real_base_url = Some(U1)
    /\ req.resp = Some(proxy_loop_detected)

\* C13: when the upstream request fails to connect or the upstream response
\* body cannot be read, the client receives 502 and the ledger a failed row
\* with error_type upstream_error; 500 is the answer only to errors of the
\* proxy's own processing (raised before anything was sent upstream).
C13_UpstreamFailureIs502WithRow ==
    (req.pc = "done" /\ req.resp # None /\ req.resp[1].kind = "internal_error") =>
        IF req.upstreamSent
        THEN /\ req.resp[1].status = 502
             /\ \E i \in 1..Len(rows) :
                    /\ rows[i].rid = req.rid
                    /\ rows[i].status = "failed"
                    /\ rows[i].error_type = Some("upstream_error")
        ELSE req.resp[1].status = 500

(***************************************************************************)
(* Part III: the request processors applied to drawn inputs.                *)
(***************************************************************************)

\* A header map: a function from (lower-case) header names to values.
HeaderNames == {"host", "authorization", "x-api-key", "x-goog-api-key",
                "content-type"}
ClientValue(n) == <<"client", n>>
HeaderMaps == {[n \in S |-> ClientValue(n)] : S \in SUBSET HeaderNames}

\* HeaderMap::insert: replaces the value of a name already present
insert(headers, name, value) ==
    [n \in (DOMAIN headers) \cup {name} |->
        IF n = name THEN value ELSE headers[n]]

\* the copy loop: every inbound header except the skipped names
copy_headers(original_headers, skipped) ==
    [n \in (DOMAIN original_headers) \ skipped |-> original_headers[n]]

\* claude_processor.rs 101-121
claude_headers(original_headers, final_api_key) ==
    insert(copy_headers(original_headers,
                        {"host", "authorization", "x-api-key"}),
           "authorization", <<"Bearer ">> \o final_api_key)

\* codex_processor.rs 117-137
codex_headers(original_headers, final_api_key) ==
    insert(copy_headers(original_headers,
                        {"host", "authorization", "x-api-key"}),
           "authorization", <<"Bearer ">> \o final_api_key)

\* gemini_processor.rs 44-66
gemini_headers(original_headers, api_key) ==
    insert(copy_headers(original_headers,
                        {"host", "x-goog-api-key", "authorization",
                         "x-api-key"}),
           "x-goog-api-key", api_key)

\* the processor that builds the request: the instance's own, or for Amp the
\* delegate of the detected API type
delegate_of(tool_id, amp) ==
    IF tool_id # "amp-code" THEN tool_id
    ELSE CASE amp[1].api_type = "Claude" -> "claude-code"
           [] amp[1].api_type = "Codex" -> "codex"
           [] amp[1].api_type = "Gemini" -> "gemini-cli"

\* ProcessedRequest.headers of process_outgoing_request
outgoing_headers(tool_id, amp, original_headers, final_api_key) ==
    CASE delegate_of(tool_id, amp) = "claude-code" ->
            claude_headers(original_headers, final_api_key)
      [] delegate_of(tool_id, amp) = "codex" ->
            codex_headers(original_headers, final_api_key)
      [] delegate_of(tool_id, amp) = "gemini-cli" ->
            gemini_headers(original_headers, final_api_key)

\* Request bodies of Part III: "empty", "garbage" (not JSON), "json_no_session"
\* (JSON without the session id field) and "json" (JSON with it).
RequestBodies == {"empty", "garbage", "json_no_session", "json"}

\* What get_session_config may return: no row, a non-custom profile with URL
\* and key stored, and custom profiles with either, both or neither stored.
\* An empty string is None.
Session(config_name, url, api_key) ==
    Some([config_name |-> config_name, url |-> url, api_key |-> api_key])

SessionConfigs ==
    {None} \cup {Session(n, u, k) : n \in {"custom", "global"},
                                    u \in {None, Some(SessionUrl)},
                                    k \in {None, Some(SessionKey)}}

AmpSelections == {None, AmpProfile("Claude"), AmpProfile("Codex"),
                  AmpProfile("Gemini")}

\* One call of processor.process_outgoing_request
ApplyProcessor ==
    /\ call.fn = "none"
    /\ \E t \in Tools, h \in HeaderMaps, b \in RequestBodies,
          session \in SessionConfigs, amp \in AmpSelections :
         LET processed == process_outgoing_request(t, U1, A1, b, session, amp)
         IN  call' = [fn |-> "process_outgoing_request",
                      tool_id |-> t, base_url |-> U1, api_key |-> A1,
                      original_headers |-> h, body |-> b,
                      session |-> session, amp |-> amp,
                      out |-> IF processed.ok
                              THEN [ok |-> TRUE,
                                    target_url |-> processed.target_url[1],
                                    api_key |-> processed.api_key[1],
                                    route |-> processed.route,
                                    headers |-> outgoing_headers(t, amp, h,
                                                   processed.api_key[1])]
                              ELSE [ok |-> FALSE]]
    /\ UNCHANGED outsideCall

InitProcessor ==
    /\ StoreIdle
    /\ LifeIdle
    /\ LedgerStart
    /\ ProxyIdle
    /\ CallIdle
    /\ CheckinIdle
    /\ PricingIdle

NextProcessor == ApplyProcessor

SpecProcessor == InitProcessor /\ [][NextProcessor]_vars

\* the session of a call replaces URL and key: stored as "custom" with both
\* values non-empty, looked up under the id of a JSON body that carries one
OverrideApplies(c) ==
    /\ c.body = "json"
    /\ c.session # None
    /\ c.session[1].config_name = "custom"
    /\ c.session[1].url # None
    /\ c.session[1].api_key # None

\* C14: for every inbound header set the outbound header map carries exactly
\* one credential header - authorization for Claude/Codex, x-goog-api-key for
\* Gemini, never both - whose value is built from the session key when the
\* override applies and otherwise from the configured upstream key, with the
\* `Bearer ` prefix for Claude/Codex and without it for Gemini.
C14_ExactlyOneCredentialHeader ==
    (call.fn = "process_outgoing_request" /\ call.out.ok) =>
        LET h == call.out.headers
            credentials == (DOMAIN h) \cap {"authorization", "x-goog-api-key"}
            d == delegate_of(call.tool_id, call.amp)
            configured == IF call.tool_id = "amp-code"
                          THEN call.amp[1].api_key ELSE call.api_key
            key == IF d # "gemini-cli" /\ OverrideApplies(call)
                   THEN call.session[1].api_key[1] ELSE configured
        IN  IF d = "gemini-cli"
            THEN /\ credentials = {"x-goog-api-key"}
                 /\ h["x-goog-api-key"] = key
            ELSE /\ credentials = {"authorization"}
                 /\ h["authorization"] = <<"Bearer ">> \o key

\* C16: for Claude and Codex requests the session's URL and key replace the
\* configured base URL and key if and only if the session is stored as
\* "custom" with both values non-empty; in every other case (no such session,
\* another profile name, either value empty, no session id, empty or
\* unparseable body) both configured values are used; URL and key always come
\* from the same source, and the key sent is the one chosen.
C16_SessionOverrideIffCustomAndComplete ==
    (/\ call.fn = "process_outgoing_request"
     /\ call.tool_id \in {"claude-code", "codex"}) =>
        /\ call.out.ok
        /\ IF OverrideApplies(call)
           THEN /\ call.out.target_url = call.session[1].url[1]
                /\ call.out.api_key = call.session[1].api_key[1]
           ELSE /\ call.out.target_url = call.base_url
                /\ call.out.api_key = call.api_key
        /\ call.out.headers["authorization"] = <<"Bearer ">> \o call.out.api_key

C16_Witness ==
    /\ call.fn = "process_outgoing_request"
    /\ call.tool_id = "codex"
    /\ call.body = "json"
    /\ call.session = Session("custom", Some(SessionUrl), Some(SessionKey))
    /\ call.out.target_url = SessionUrl
    /\ call.out.api_key = SessionKey

\* ---- the Codex target URL -------------------------------------------------
\* A string is a sequence of pieces that are never split: "/" (one byte), "v1"
\* (two bytes), other words, and for a base URL the leading scheme-and-host.

MaxBaseLen == 3          \* pieces of a base URL after scheme and host
MaxPathLen == 3          \* pieces of a request path after its leading "/"

SeqsUpTo(S, n) == UNION {[1..k -> S] : k \in 0..n}

Host == "https://api.example"
BaseUrls == {<<Host>> \o t : t \in SeqsUpTo({"/", "v1", "api"}, MaxBaseLen)}
Paths == {<<"/">> \o t : t \in SeqsUpTo({"/", "v1", "beta", "x"}, MaxPathLen)}
Queries == {None, Some("a=1")}

\* str::trim_end_matches('/')
RECURSIVE trim_end_matches(_)
trim_end_matches(str) ==
    IF str # <<>> /\ str[Len(str)] = "/"
    THEN trim_end_matches(SubSeq(str, 1, Len(str) - 1))
    ELSE str

\* str::ends_with("/v1") and str::starts_with("/v1")
ends_with_v1(str) ==
    Len(str) >= 2 /\ str[Len(str) - 1] = "/" /\ str[Len(str)] = "v1"
starts_with_v1(str) == Len(str) >= 2 /\ str[1] = "/" /\ str[2] = "v1"

\* query.map(|q| format!("?{q}")).unwrap_or_default()
query_str(query) == IF query = None THEN <<>> ELSE <<"?", query[1]>>

\* codex_processor.rs 104-115
codex_target_url(base_url, path, query) ==
    LET base == trim_end_matches(base_url)
        adjusted_path == IF ends_with_v1(base) /\ starts_with_v1(path)
                         THEN SubSeq(path, 3, Len(path))   \* &path[3..]
                         ELSE path
    IN  base \o adjusted_path \o query_str(query)

ApplyCodexUrl ==
    /\ call.fn = "none"
    /\ \E b \in BaseUrls, p \in Paths, q \in Queries :
         call' = [fn |-> "codex_target_url", base_url |-> b, path |-> p,
                  query |-> q, out |-> codex_target_url(b, p, q)]
    /\ UNCHANGED outsideCall

NextCodexUrl == ApplyCodexUrl

SpecCodexUrl == InitProcessor /\ [][NextCodexUrl]_vars

\* the number of path segments `v1` in a string
V1Segments(str) ==
    Cardinality({i \in 1..(Len(str) - 1) :
                    /\ str[i] = "/"
                    /\ str[i + 1] = "v1"
                    /\ (i + 1 = Len(str) \/ str[i + 2] = "/")})

\* C15: for the Codex processor and every path, if the slash-trimmed base URL
\* ends with /v1 and the path starts with /v1, the path component of the
\* target URL contains the segment /v1 exactly once; in every other case the
\* target URL is the trimmed base followed by the path (and `?query`).
C15_V1ExactlyOnce ==
    call.fn = "codex_target_url" =>
        LET base == trim_end_matches(call.base_url)
            q == query_str(call.query)
            component == SubSeq(call.out, 2, Len(call.out) - Len(q))
        IN  IF ends_with_v1(base) /\ starts_with_v1(call.path)
            THEN V1Segments(component) = 1
            ELSE call.out = base \o call.path \o q

\* ---- session ids ----------------------------------------------------------
\* A request body with the fields the processors and the recorder read.  An id
\* is a sequence of pieces; a Claude user_id may hold the marker "_session_".

Body(kind, user_id, prompt_cache_key, model, stream) ==
    [kind |-> kind, user_id |-> user_id, prompt_cache_key |-> prompt_cache_key,
     model |-> model, stream |-> stream]

UserIds == {<<u>> : u \in {"user_1", "user_2"}}
               \cup {<<u, "_session_", x>> : u \in {"user_1", "user_2"},
                                             x \in {"s1", "s2"}}
CacheKeys == {<<"cache-1">>, <<"cache-2">>}

SessionBodies ==
    {Body("empty", None, None, None, FALSE),
     Body("garbage", None, None, None, FALSE)}
    \cup {Body("json", u, k, m, st) :
             u \in {None} \cup {Some(x) : x \in UserIds},
             k \in {None} \cup {Some(x) : x \in CacheKeys},
             m \in {None, Some("model-1")},
             st \in BOOLEAN}

\* uuid::Uuid::new_v4().to_string(): an id no body carries
Uuid == <<"uuid-v4">>

\* ProxySession::extract_display_id: the part after "_session_", if any
extract_display_id(user_id) ==
    IF \E i \in 1..Len(user_id) : user_id[i] = "_session_"
    THEN LET i == CHOOSE j \in 1..Len(user_id) : user_id[j] = "_session_"
         IN  Some(SubSeq(user_id, i + 1, Len(user_id)))
    ELSE None

\* the id under which get_session_config is asked
\* (claude_processor.rs 37-46: metadata.user_id; codex_processor.rs 40-53:
\* prompt_cache_key)
lookup_id(tool_id, body) ==
    IF body.kind # "json" THEN None
    ELSE IF tool_id = "claude-code" THEN body.user_id
    ELSE body.prompt_cache_key

\* RequestLogContext::from_request, lines 33-48: session_id
context_session_id(body) ==
    IF body.kind = "json" /\ body.user_id # None
                          /\ extract_display_id(body.user_id[1]) # None
    THEN extract_display_id(body.user_id[1])[1]
    ELSE Uuid

\* ClaudeHeadersProcessor::record_request_log, lines 166-180: session_id
claude_session_id(body) ==
    IF body.kind = "json" /\ body.user_id # None
                          /\ extract_display_id(body.user_id[1]) # None
    THEN extract_display_id(body.user_id[1])[1]
    ELSE Uuid

\* TokenLog.session_id of the row record_request_log writes for a body
row_session_id(tool_id, body) ==
    IF tool_id = "claude-code" THEN claude_session_id(body)
    ELSE context_session_id(body)

ApplySessionIds ==
    /\ call.fn = "none"
    /\ \E t \in {"claude-code", "codex"}, b \in SessionBodies :
         call' = [fn |-> "session_ids", tool_id |-> t, body |-> b,
                  lookup |-> lookup_id(t, b),
                  row |-> row_session_id(t, b)]
    /\ UNCHANGED outsideCall

NextSessionIds == ApplySessionIds

SpecSessionIds == InitProcessor /\ [][NextSessionIds]_vars

\* C17: the session id in a request's ledger row is the id the tool's rule
\* extracts from its body - for Claude the part of metadata.user_id after
\* `_session_`, for Codex the prompt_cache_key - and is the id of the
\* session-override lookup (for Claude its part after the marker); a
\* synthesized UUID is used only when the body carries no session id.
C17_RowSessionIdIsBodySessionId ==
    call.fn = "session_ids" =>
        LET b == call.body
            carried ==
                IF b.kind # "json" THEN None
                ELSE IF call.tool_id = "codex" THEN b.prompt_cache_key
                ELSE IF b.user_id = None THEN None
                ELSE extract_display_id(b.user_id[1])
        IN  /\ carried # None => call.row = carried[1]
            /\ call.row = Uuid => carried = None
            /\ (call.lookup # None /\ call.tool_id = "codex") =>
                   call.row = call.lookup[1]

(***************************************************************************)
(* Part IV: the check-in scheduler.                                        *)
(*                                                                         *)
(* A timestamp is a number of seconds of local time: the local offset is   *)
(* taken to be zero, so Utc::now().timestamp() and Local::now() read the   *)
(* same clock.  Date 0 is the first local calendar day.                    *)
(***************************************************************************)

\* chrono: DateTime::date_naive, Timelike::hour, Timelike::minute
date_naive(ts) == ts \div 86400
hour(ts) == (ts % 86400) \div 3600
minute(ts) == (ts % 3600) \div 60

\* date.and_time(NaiveTime::from_hms_opt(h, m, 0)) taken as a local timestamp
and_time(date, h, m) == date * 86400 + h * 3600 + m * 60

\* A CheckinConfig as make_config builds it (endpoint, message and quota
\* play no part in the scheduling).
CheckinConfig(enabled, start_hour, end_hour) ==
    [enabled |-> enabled, checkin_hour_start |-> start_hour,
     checkin_hour_end |-> end_hour,
     next_checkin_at |-> None, last_checkin_at |-> None,
     last_checkin_status |-> None, total_checkins |-> 0]

\* CheckinConfig::effective_range: start == end and start > end mean the
\* whole day.
effective_range(c) ==
    IF c.checkin_hour_start >= c.checkin_hour_end
    THEN <<0, 23>>
    ELSE <<c.checkin_hour_start, c.checkin_hour_end>>

checked_in_today(c, now) ==
    IF c.last_checkin_at # None
    THEN date_naive(c.last_checkin_at[1]) = date_naive(now)
    ELSE FALSE

should_checkin(c, now) ==
    IF ~c.enabled THEN FALSE
    ELSE IF checked_in_today(c, now) THEN FALSE
    ELSE IF c.next_checkin_at # None THEN now >= c.next_checkin_at[1]
    ELSE FALSE

needs_schedule(c, now) ==
    c.enabled /\ ~checked_in_today(c, now) /\ c.next_checkin_at = None

\* generate_checkin_time with the hour drawn from the whole day
generate_checkin_time_any_hour(c, date, rng) ==
    {and_time(date, d[1], d[2]) : d \in {x \in rng : x[2] \in 0..59}}

\* The timestamps generate_checkin_time can return for `date`: one per
\* outcome <<hour, minute>> of the two rng draws, of those in `rng`.
generate_checkin_time(c, date, rng) ==
    LET range == effective_range(c)
    IN  {and_time(date, d[1], d[2]) :
            d \in {x \in rng : x[1] \in range[1]..range[2] /\ x[2] \in 0..59}}

\* The values generate_retry_time can return when Local::now() reads `now`:
\* None, or Some(t) for each outcome random_minutes of the rng draw, of
\* those in `rng`.
generate_retry_time(c, now, rng) ==
    LET end_hour == effective_range(c)[2]
        min_retry == now + 10 * 60
        min_hour == hour(min_retry)
        min_minute == minute(min_retry)
        start_minutes == min_hour * 60 + min_minute
        end_minutes == end_hour * 60 + 59
    IN  IF min_hour > end_hour \/ (min_hour = end_hour /\ min_minute > 59)
        THEN {None}
        ELSE IF start_minutes >= end_minutes
        THEN {None}
        ELSE {Some(and_time(date_naive(now), random_minutes \div 60,
                            random_minutes % 60)) :
                random_minutes \in
                    {x \in rng : start_minutes <= x /\ x <= end_minutes}}

\* The hour ranges of the providers explored: a morning window and the
\* whole day.
Windows == {<<9, 12>>, <<0, 0>>}

(***************************************************************************)
(* generate_retry_time applied at drawn times of day.         SpecRetry    *)
(***************************************************************************)
ClockHours == 0..23
ClockMinutes == {0, 25, 55}
ClockSeconds == {0, 30}

\* the local times at which an attempt is found to have failed
FailureTimes ==
    {and_time(0, h, m) + sec : h \in ClockHours, m \in ClockMinutes,
                               sec \in ClockSeconds}

ApplyRetryTime ==
    /\ call.fn = "none"
    /\ \E now \in FailureTimes, w \in Windows :
         LET c == CheckinConfig(TRUE, w[1], w[2])
         IN  \E out \in generate_retry_time(c, now, 0..(24 * 60 - 1)) :
               call' = [fn |-> "generate_retry_time", now |-> now,
                        end_hour |-> effective_range(c)[2], out |-> out]
    /\ UNCHANGED outsideCall

NextRetry == ApplyRetryTime

SpecRetry == InitProcessor /\ [][NextRetry]_vars

\* C19: after a failed attempt at local time `now`, next_checkin_at is
\* cleared, or it is a time t of the same local day with
\* now + 10 min <= t <= end_hour:59.
C19_RetryWithinRestOfWindow ==
    call.fn = "generate_retry_time" =>
        \/ call.out = None
        \/ /\ call.now + 10 * 60 <= call.out[1]
           /\ call.out[1] <= and_time(date_naive(call.now), call.end_hour, 59)

(***************************************************************************)
(* CheckinScheduler: the tick loop spawned by start and run_once, both     *)
(* executing check_and_checkin on the shared ProviderManager.              *)
(*                                        SpecCheckin, SpecCheckinTick     *)
(***************************************************************************)
MaxRunOnce == 1          \* run_once calls explored

\* the local calendar dates explored
Dates == {0, 1}

ProviderIds == {"p1"}
Runners == {"tick", "run_once"}

\* the times of day at which the clock is read: inside the morning window,
\* at its last minutes, and late in the evening
TickTimes == {<<9, 0>>, <<12, 55>>, <<23, 0>>}
ClockTimes == {and_time(d, t[1], t[2]) : d \in Dates, t \in TickTimes}

\* the outcomes <<hour, minute>> of the rng draws explored
DrawnTimes == {<<9, 30>>, <<12, 30>>, <<23, 30>>}

\* an execution of check_and_checkin that is not under way
IdleRun == [pc |-> "idle", provider |-> None]

InitCheckin ==
    /\ StoreIdle
    /\ LifeIdle
    /\ LedgerStart
    /\ ProxyIdle
    /\ CallIdle
    /\ PricingIdle
    /\ clock \in {t \in ClockTimes : date_naive(t) = 0}
    /\ \E w \in Windows, enabled \in BOOLEAN :
         providers = [p \in ProviderIds |-> CheckinConfig(enabled, w[1], w[2])]
    /\ runs = [r \in Runners |-> IdleRun]
    /\ last_tick = None
    /\ run_once_calls = 0
    /\ checkins = [d \in Dates |-> 0]
    /\ window_over = {}
    /\ retried_after_over = FALSE

\* check_and_checkin, lines 73-83: list the providers, keep the enabled ones,
\* return when there is none.
Enter(r, p) ==
    /\ runs[r].pc = "idle"
    /\ runs' = [runs EXCEPT ![r] =
                  IF providers[p].enabled
                  THEN [pc |-> "phase1", provider |-> Some(providers[p])]
                  ELSE IdleRun]
    /\ UNCHANGED <<clock, providers, checkins, window_over, retried_after_over>>
    /\ UNCHANGED outsideCheckin

\* One turn of the loop spawned by start: interval.tick() has fired (60 s
\* after the turn before) and check_and_checkin is entered.
Tick ==
    /\ last_tick # None => last_tick[1] < clock
    /\ \E p \in ProviderIds : Enter("tick", p)
    /\ last_tick' = Some(clock)
    /\ UNCHANGED run_once_calls

run_once ==
    /\ run_once_calls < MaxRunOnce
    /\ \E p \in ProviderIds : Enter("run_once", p)
    /\ run_once_calls' = run_once_calls + 1
    /\ UNCHANGED last_tick

\* Phase 1: a provider that needs a plan gets next_checkin_at, a time
\* already past being replaced by now; the clone taken on entry is written.
Schedule(r) ==
    /\ runs[r].pc = "phase1"
    /\ \E p \in ProviderIds :
         LET held == runs[r].provider[1]
         IN  IF needs_schedule(held, clock)
             THEN \E scheduled_time \in
                        generate_checkin_time(held, date_naive(clock), DrawnTimes) :
                    LET final_time == IF scheduled_time < clock
                                      THEN clock ELSE scheduled_time
                    IN  providers' = [providers EXCEPT ![p] =
                            [held EXCEPT !.next_checkin_at = Some(final_time)]]
             ELSE UNCHANGED providers
    /\ runs' = [runs EXCEPT ![r].pc = "reload", ![r].provider = None]
    /\ UNCHANGED <<clock, checkins, window_over, retried_after_over>>
    /\ UNCHANGED <<last_tick, run_once_calls, outsideCheckin>>

\* The providers are listed again and filtered by should_checkin.
Reload(r) ==
    /\ runs[r].pc = "reload"
    /\ \E p \in ProviderIds :
         runs' = [runs EXCEPT ![r] =
                    IF should_checkin(providers[p], clock)
                    THEN [@ EXCEPT !.pc = "phase2",
                                   !.provider = Some(providers[p])]
                    ELSE [@ EXCEPT !.pc = "idle", !.provider = None]]
    /\ UNCHANGED <<clock, providers, checkins, window_over, retried_after_over>>
    /\ UNCHANGED <<last_tick, run_once_calls, outsideCheckin>>

\* Phase 2: the POST of perform_checkin is sent; its answer is awaited with
\* no lock held.
perform_checkin(r) ==
    LET today == date_naive(clock)
    IN  /\ runs[r].pc = "phase2"
        /\ runs' = [runs EXCEPT ![r].pc = "awaiting"]
        /\ retried_after_over' = (retried_after_over \/ today \in window_over)
        /\ UNCHANGED <<clock, providers, checkins, window_over>>
        /\ UNCHANGED <<last_tick, run_once_calls, outsideCheckin>>

\* Ok(response) with response.success: the clone taken at the reload gets
\* the statistics of the check-in and is written.
CheckinSucceeds(r) ==
    LET today == date_naive(clock)
    IN  /\ runs[r].pc = "awaiting"
        /\ \E p \in ProviderIds :
             providers' = [providers EXCEPT ![p] =
                 [runs[r].provider[1] EXCEPT
                     !.next_checkin_at = None,
                     !.last_checkin_at = Some(clock),
                     !.last_checkin_status = Some("success"),
                     !.total_checkins = @ + 1]]
        /\ checkins' = [checkins EXCEPT ![today] = IF @ < 2 THEN @ + 1 ELSE @]
        /\ runs' = [runs EXCEPT ![r].pc = "idle", ![r].provider = None]
        /\ UNCHANGED <<clock, window_over, retried_after_over>>
        /\ UNCHANGED <<last_tick, run_once_calls, outsideCheckin>>

\* schedule_retry: the clone gets the retry time, or no time when
\* generate_retry_time returns None, and is written.
schedule_retry(r) ==
    LET today == date_naive(clock)
        held == runs[r].provider[1]
        explored == generate_retry_time(held, clock,
                                        {d[1] * 60 + d[2] : d \in DrawnTimes})
        outcomes == IF explored # {} THEN explored
                    ELSE generate_retry_time(held, clock, 0..(24 * 60 - 1))
    IN  /\ \E p \in ProviderIds, out \in outcomes :
             /\ providers' = [providers EXCEPT ![p] =
                    [held EXCEPT !.next_checkin_at = out,
                                   !.last_checkin_status = Some("failed")]]
             /\ window_over' = IF out = None THEN window_over \cup {today}
                               ELSE window_over
        /\ runs' = [runs EXCEPT ![r].pc = "idle", ![r].provider = None]
        /\ UNCHANGED <<clock, checkins, retried_after_over>>
        /\ UNCHANGED <<last_tick, run_once_calls, outsideCheckin>>

\* The attempt fails: Ok(response) with success = false, or Err (HTTP status
\* not a success, network error, timeout).
CheckinFails(r) ==
    /\ runs[r].pc = "awaiting"
    /\ \E failure \in {"success_false", "http_status", "network_error"} :
         schedule_retry(r)

\* Time passes.
Advance ==
    /\ \E t \in ClockTimes : t > clock /\ clock' = t
    /\ UNCHANGED <<providers, runs, checkins, window_over, retried_after_over>>
    /\ UNCHANGED <<last_tick, run_once_calls, outsideCheckin>>

NextCheckin ==
    \/ Tick
    \/ run_once
    \/ \E r \in Runners : Schedule(r)
    \/ \E r \in Runners : Reload(r)
    \/ \E r \in Runners : perform_checkin(r)
    \/ \E r \in Runners : CheckinSucceeds(r)
    \/ \E r \in Runners : CheckinFails(r)
    \/ Advance

SpecCheckin == InitCheckin /\ [][NextCheckin]_vars

\* The tick loop alone: run_once is never called.
NextCheckinTick ==
    \/ Tick
    \/ Schedule("tick")
    \/ Reload("tick")
    \/ perform_checkin("tick")
    \/ CheckinSucceeds("tick")
    \/ CheckinFails("tick")
    \/ Advance

SpecCheckinTick == InitCheckin /\ [][NextCheckinTick]_vars

\* C18: on every local calendar date at most one successful check-in of the
\* provider is recorded, whatever the ticks and run_once calls, overlapping
\* ones included.
C18_OneSuccessPerDate ==
    \A d \in Dates : checkins[d] <= 1

\* C20: once a failed attempt has found the retry interval empty, no
\* check-in is attempted for the provider on the rest of that local date.
C20_NoAttemptAfterWindowOver == retried_after_over = FALSE

MaxSyncs == 2            \* runs of sync_remote_prices explored

\* the templates in the order sync_remote_prices saves them
TemplateIds == <<"builtin_claude", "builtin_openai", "builtin_gemini">>

\* what the mirror can serve: with or without an ETag header, models of one
\* provider or of all three
Mirrors ==
    {[etag |-> e, models |-> m] :
        e \in {None, Some("etag-1"), Some("etag-2")},
        m \in {<<{"claude-a"}, {}, {}>>,
               <<{"claude-a", "claude-b"}, {"gpt-a"}, {"gemini-a"}>>}}

\* RemoteSyncState::default() and no template file
NoPricingFiles ==
    [sync_state |-> [etag |-> None, last_modified |-> None,
                     last_success_at |-> None],
     templates |-> [i \in 1..3 |-> None]]

\* the If-None-Match header of the request: never sent
if_none_match_never(state) == None

\* the If-None-Match header of the request: the stored ETag, if any
if_none_match(state) == state.etag

\* the status the mirror answers with: 304 to the ETag it serves
mirror_status(mirror, header) ==
    IF header # None /\ header = mirror.etag THEN 304 ELSE 200

\* build_template_from_remote: created_at is kept from the existing file
build_template_from_remote(models, existing_template, now) ==
    [custom_models |-> models,
     created_at |-> IF existing_template # None
                    THEN existing_template[1].created_at ELSE now,
     updated_at |-> now]

\* the template files after the templates up to number `last` were saved
save_templates(templates, models, last, now) ==
    [i \in 1..3 |->
        IF i <= last /\ models[i] # {}
        THEN Some(build_template_from_remote(models[i], templates[i], now))
        ELSE templates[i]]

\* the sync state written as soon as the body is parsed, before the
\* templates are saved
stored_sync_state_when_parsed(state, new_state, parsed, completed, fault) ==
    IF parsed /\ fault # "save_sync_state" THEN new_state ELSE state

\* lines 145-153: the sync state is saved after the last template, when no
\* step before returned; a failing save_sync_state is only logged
stored_sync_state(state, new_state, parsed, completed, fault) ==
    IF completed /\ fault # "save_sync_state" THEN new_state ELSE state

InitSync ==
    /\ StoreIdle
    /\ LifeIdle
    /\ LedgerStart
    /\ ProxyIdle
    /\ CallIdle
    /\ CheckinIdle
    /\ remote \in Mirrors
    /\ pricing_files = NoPricingFiles
    /\ sync_runs = <<>>

\* One run of sync_remote_prices, with the step that fails, if any:
\* the request, the status (not a success), the body (unreadable or not
\* JSON), save_template for template number `at`, or save_sync_state.
sync_remote_prices ==
    /\ Len(sync_runs) < MaxSyncs
    /\ \E fault \in {"none", "send", "status", "body", "save_template",
                     "save_sync_state"}, at \in 1..3 :
         LET state == pricing_files.sync_state
             request == if_none_match(state)
             now == Len(sync_runs) + 1
             code == IF fault = "send" THEN 0
                       ELSE IF fault = "status" THEN 500
                       ELSE mirror_status(remote, request)
             parsed == code = 200 /\ fault # "body"
             saved_to == IF ~parsed THEN 0
                         ELSE IF fault = "save_template" THEN at - 1 ELSE 3
             completed == parsed /\ fault # "save_template"
             new_state == [etag |-> remote.etag,
                           last_modified |-> Some("date"),
                           last_success_at |-> Some(now)]
             after ==
                 [sync_state |-> stored_sync_state(state, new_state, parsed,
                                                   completed, fault),
                  templates |-> save_templates(pricing_files.templates,
                                               remote.models, saved_to, now)]
             result == IF code = 304 THEN "no_change"
                       ELSE IF completed THEN "updated" ELSE "error"
         IN  /\ fault = "save_template" => remote.models[at] # {}
             /\ (fault \in {"body", "save_template", "save_sync_state"}) =>
                    code = 200
             /\ pricing_files' = after
             /\ sync_runs' = Append(sync_runs,
                    [mirror |-> remote, sent |-> request, status |-> code,
                     result |-> result, before |-> pricing_files,
                     after |-> after])
    /\ UNCHANGED remote
    /\ UNCHANGED outsidePricing

\* The mirror publishes another snapshot.
MirrorChanges ==
    /\ \E m \in Mirrors : m # remote /\ remote' = m
    /\ UNCHANGED <<pricing_files, sync_runs>>
    /\ UNCHANGED outsidePricing

NextSync ==
    \/ sync_remote_prices
    \/ MirrorChanges

SpecSync == InitSync /\ [][NextSync]_vars

\* two runs in a row that both returned Ok, with no change of the mirror
\* between them
ConsecutiveRuns ==
    {i \in 1..(Len(sync_runs) - 1) :
        /\ sync_runs[i].result # "error"
        /\ sync_runs[i + 1].result # "error"
        /\ sync_runs[i].mirror = sync_runs[i + 1].mirror}

\* the second of two runs sent the stored ETag, was answered 304 and wrote
\* nothing
SecondRunIsNoChange(i) ==
    /\ sync_runs[i + 1].sent # None
    /\ sync_runs[i + 1].sent = sync_runs[i].after.sync_state.etag
    /\ sync_runs[i + 1].status = 304
    /\ sync_runs[i + 1].after = sync_runs[i].after

AllBucketsSaved(i) ==
    \A k \in 1..3 :
        sync_runs[i].mirror.models[k] # {} =>
            /\ sync_runs[i].after.templates[k] # None
            /\ sync_runs[i].after.templates[k][1].custom_models = sync_runs[i].mirror.models[k]
            /\ sync_runs[i].after.templates[k][1].updated_at = i

\* C38: the stored sync state changes only in a run that was answered 200,
\* parsed the body and saved the template of every non-empty bucket; a run
\* that ends in an error or as a 304 leaves the stored state, its ETag
\* included, as it was.
C38_SyncStateOnlyAfterAllSaved ==
    \A i \in 1..Len(sync_runs) :
        /\ (sync_runs[i].after.sync_state # sync_runs[i].before.sync_state) =>
               /\ sync_runs[i].status = 200
               /\ sync_runs[i].result = "updated"
               /\ AllBucketsSaved(i)
        /\ (sync_runs[i].result # "updated") =>
               sync_runs[i].after.sync_state = sync_runs[i].before.sync_state

\* a run saved one template, failed on a later one and left the stored
\* ETag, which is not the mirror's, alone
C38_Witness ==
    \E i \in 1..Len(sync_runs) :
        /\ sync_runs[i].status = 200
        /\ sync_runs[i].result = "error"
        /\ sync_runs[i].after.templates # sync_runs[i].before.templates
        /\ sync_runs[i].mirror.etag # None
        /\ sync_runs[i].after.sync_state.etag # sync_runs[i].mirror.etag

(***************************************************************************)
(* Alias generation and resolution.                           SpecAliases  *)
(*                                                                         *)
(* A model key is a sequence of characters; a date suffix "-YYYYMMDD" is   *)
(* one piece, the last of the key.                                         *)
(***************************************************************************)
MaxKeyLen == 3           \* characters of a model key before its date suffix

KeyChars == {"a", "1", "-", "."}
DateSuffixes == {"-20250929"}

is_ascii_digit(c) == c = "1"

\* the model keys the mirror can list: names that start with a letter or a
\* digit, undated and dated
ModelKeys ==
    LET names == {n \in UNION {[1..len -> KeyChars] : len \in 1..MaxKeyLen} :
                     n[1] \notin {"-", "."}}
    IN  names \cup {n \o <<d>> : n \in names, d \in DateSuffixes}

\* s.split('-'): the part that ends just before position i, and the part
\* that starts just after it
part_before(s, i) ==
    LET from == CHOOSE j \in 1..i :
                    /\ \A k \in j..(i - 1) : s[k] # "-"
                    /\ (j = 1 \/ s[j - 1] = "-")
    IN  SubSeq(s, from, i - 1)
part_after(s, i) ==
    LET to == CHOOSE j \in i..Len(s) :
                  /\ \A k \in (i + 1)..j : s[k] # "-"
                  /\ (j = Len(s) \/ s[j + 1] = "-")
    IN  SubSeq(s, i + 1, to)

all_digits(part) ==
    part # <<>> /\ \A k \in 1..Len(part) : is_ascii_digit(part[k])

replace_digit_dashes_with_dots(s) ==
    [i \in 1..Len(s) |->
        IF s[i] = "-" /\ all_digits(part_before(s, i))
                      /\ all_digits(part_after(s, i))
        THEN "." ELSE s[i]]

replace_digit_dots_with_dashes(s) ==
    [i \in 1..Len(s) |->
        IF s[i] = "." /\ i > 1 /\ is_ascii_digit(s[i - 1])
           /\ i + 1 <= Len(s) /\ is_ascii_digit(s[i + 1])
        THEN "-" ELSE s[i]]

\* generate_aliases: the Vec it returns
generate_aliases(model_key) ==
    LET has_date_suffix == Len(model_key) > 1
                           /\ model_key[Len(model_key)] \in DateSuffixes
        base == IF has_date_suffix
                THEN SubSeq(model_key, 1, Len(model_key) - 1) ELSE model_key
        a1 == IF has_date_suffix /\ base # model_key
              THEN <<model_key, base>> ELSE <<model_key>>
        dot_version == replace_digit_dashes_with_dots(base)
        a2 == IF dot_version # base /\ dot_version \notin Range(a1)
              THEN Append(a1, dot_version) ELSE a1
        dash_version == replace_digit_dots_with_dashes(base)
    IN  IF dash_version # base /\ dash_version \notin Range(a2)
        THEN Append(a2, dash_version) ELSE a2

\* custom_models of the template build_template_from_remote builds from
\* `models`, a function from keys to the price served for each
custom_models_of(models) ==
    [k \in DOMAIN models |->
        [input_price |-> models[k], aliases |-> generate_aliases(k)]]

\* Resolution in custom_models: the exact key, else an entry whose alias
\* list contains the name (whichever the map yields first), else nothing.
resolve(custom_models, model_name) ==
    IF model_name \in DOMAIN custom_models
    THEN {Some(custom_models[model_name])}
    ELSE LET hits == {k \in DOMAIN custom_models :
                         model_name \in Range(custom_models[k].aliases)}
         IN  IF hits = {} THEN {None}
             ELSE {Some(custom_models[k]) : k \in hits}

\* A template is built from one or two served keys and an alias of one of
\* them is resolved.
ApplyResolve ==
    /\ call.fn = "none"
    /\ \E k \in ModelKeys, other \in ModelKeys, price \in {1, 2} :
         LET models == [x \in {k, other} |-> IF x = k THEN 1 ELSE price]
             custom == custom_models_of(models)
         IN  \E a \in Range(custom[k].aliases) : \E out \in resolve(custom, a) :
               call' = [fn |-> "resolve", custom_models |-> custom, key |-> k,
                        model_name |-> a, out |-> out]
    /\ UNCHANGED outsideCall

NextAliases == ApplyResolve

SpecAliases == InitProcessor /\ [][NextAliases]_vars

\* C23: resolving an alias of a stored key yields the ModelPrice stored
\* under that key.
C23_AliasResolvesToItsKey ==
    call.fn = "resolve" => call.out = Some(call.custom_models[call.key])

\* ======================================================================
\* Part VI - the token processors (services/token_stats/processor) applied
\* to drawn responses.                                        SpecTokens
\* ======================================================================

MaxTokens == 2

\* a count read with `.and_then(|v| v.as_i64())`: absent, or the number
OptCounts == {None} \cup {Some(n) : n \in 0..MaxTokens}

unwrap_or(opt, default) == IF opt = None THEN default ELSE opt[1]

TokenInfo(model, message_id, input_tokens, output_tokens, cache_creation_tokens, cache_creation_1h_tokens, cache_read_tokens, reasoning_tokens) ==
    [model |-> model, message_id |-> message_id,
     input_tokens |-> input_tokens, output_tokens |-> output_tokens,
     cache_creation_tokens |-> cache_creation_tokens,
     cache_creation_1h_tokens |-> cache_creation_1h_tokens,
     cache_read_tokens |-> cache_read_tokens,
     reasoning_tokens |-> reasoning_tokens]

\* ---- Codex -----------------------------------------------------------

\* `usage` of a Codex response; cached_tokens is
\* input_tokens_details.cached_tokens and reasoning_tokens is
\* output_tokens_details.reasoning_tokens
CodexUsages ==
    [input_tokens : OptCounts, cached_tokens : OptCounts,
     output_tokens : {None, Some(1)}, reasoning_tokens : {None, Some(1)}]

\* The counts both Codex paths take from `usage`, with the input left at
\* the reported total.
codex_counts_total(usage) ==
    [input_tokens |-> unwrap_or(usage.input_tokens, 0),
     output_tokens |-> unwrap_or(usage.output_tokens, 0),
     cache_read_tokens |-> unwrap_or(usage.cached_tokens, 0),
     reasoning_tokens |-> unwrap_or(usage.reasoning_tokens, 0)]

\* The counts both Codex paths take from `usage`: the new input is the
\* reported total less the cached part.
codex_counts(usage) ==
    LET total_input_tokens == unwrap_or(usage.input_tokens, 0)
        cached == unwrap_or(usage.cached_tokens, 0)
    IN  [input_tokens |-> total_input_tokens - cached,
         output_tokens |-> unwrap_or(usage.output_tokens, 0),
         cache_read_tokens |-> cached,
         reasoning_tokens |-> unwrap_or(usage.reasoning_tokens, 0)]

NoCounts ==
    [input_tokens |-> 0, output_tokens |-> 0, cache_read_tokens |-> 0,
     reasoning_tokens |-> 0]

\* The events of a Codex stream: response.created and response.completed
\* carry `response` with an optional id, the latter an optional usage;
\* "other" is any chunk the loop skips.
CodexEvents ==
    [type : {"response.created"}, id : {None, Some("resp_1")}, usage : {None}]
    \cup [type : {"response.completed"}, id : {None, Some("resp_2")},
          usage : {None} \cup {Some(u) : u \in CodexUsages}]
    \cup [type : {"other"}, id : {None}, usage : {None}]

\* One turn of the `for chunk in sse_chunks` loop of the Codex processor.
codex_event(acc, e) ==
    CASE e.type = "response.created" ->
           IF e.id # None THEN [acc EXCEPT !.message_id = e.id] ELSE acc
      [] e.type = "response.completed" ->
           LET named == IF acc.message_id = None /\ e.id # None
                        THEN [acc EXCEPT !.message_id = e.id] ELSE acc
           IN  IF e.usage # None
               THEN [named EXCEPT !.counts = codex_counts(e.usage[1])]
               ELSE named
      [] OTHER -> acc

RECURSIVE codex_fold(_, _)
codex_fold(acc, events) ==
    IF events = <<>> THEN acc
    ELSE codex_fold(codex_event(acc, Head(events)), Tail(events))

\* CodexProcessor::process_sse_response: None stands for Err.  The seventh
\* argument of TokenInfo::new is not passed; the 1h count is 0.
codex_process_sse_response(request_model, sse_chunks) ==
    IF request_model = None THEN None
    ELSE LET acc == codex_fold([message_id |-> None, counts |-> NoCounts],
                               sse_chunks)
         IN  IF acc.message_id = None THEN None
             ELSE Some(TokenInfo(request_model[1], acc.message_id[1],
                                 acc.counts.input_tokens,
                                 acc.counts.output_tokens, 0, 0,
                                 acc.counts.cache_read_tokens,
                                 acc.counts.reasoning_tokens))

\* CodexProcessor::process_json_response
codex_process_json_response(request_model, json) ==
    LET model == IF json.model # None THEN json.model ELSE request_model
    IN  IF model = None \/ json.id = None \/ json.usage = None THEN None
        ELSE LET counts == codex_counts(json.usage[1])
             IN  Some(TokenInfo(model[1], json.id[1], counts.input_tokens,
                                counts.output_tokens, 0, 0,
                                counts.cache_read_tokens,
                                counts.reasoning_tokens))

\* ---- Claude ----------------------------------------------------------

\* `usage` of a Claude response: the flat cache_creation_input_tokens and
\* the nested cache_creation object may each be present
ClaudeUsages ==
    [input_tokens : {Some(1)}, output_tokens : {Some(1)},
     cache_creation_input_tokens : OptCounts,
     cache_creation : {None} \cup
         {Some(c) : c \in [ephemeral_5m_input_tokens : {None, Some(1)},
                           ephemeral_1h_input_tokens : OptCounts]},
     cache_read_input_tokens : {None, Some(1)}]

ClaudeEvents ==
    [type : {"message_start"}, id : {None, Some("msg_1")},
     usage : {None} \cup {Some(u) : u \in ClaudeUsages}]
    \cup [type : {"message_delta"}, id : {None},
          usage : {None} \cup {Some(u) : u \in ClaudeUsages}]
    \cup [type : {"other"}, id : {None}, usage : {None}]

\* the nested object read as (5m + 1h, 1h)
ephemeral(cache_obj) ==
    LET ephemeral_5m == unwrap_or(cache_obj.ephemeral_5m_input_tokens, 0)
        ephemeral_1h == unwrap_or(cache_obj.ephemeral_1h_input_tokens, 0)
    IN  <<ephemeral_5m + ephemeral_1h, ephemeral_1h>>

\* the "message_start" arm
message_start(acc, e) ==
    LET named == IF e.id # None THEN [acc EXCEPT !.message_id = e.id] ELSE acc
    IN  IF e.usage = None THEN named
        ELSE LET usage == e.usage[1]
                 cache == IF usage.cache_creation_input_tokens # None
                          THEN <<usage.cache_creation_input_tokens[1], 0>>
                          ELSE IF usage.cache_creation # None
                          THEN ephemeral(usage.cache_creation[1])
                          ELSE <<named.cache_creation_tokens,
                                 named.cache_creation_1h_tokens>>
             IN  [named EXCEPT
                    !.input_tokens = unwrap_or(usage.input_tokens, 0),
                    !.output_tokens = unwrap_or(usage.output_tokens, 0),
                    !.cache_creation_tokens = cache[1],
                    !.cache_creation_1h_tokens = cache[2],
                    !.cache_read_tokens =
                        unwrap_or(usage.cache_read_input_tokens, 0)]

\* a "message_delta" arm that takes a count the delta omits as 0
message_delta_resetting(acc, e) ==
    IF e.usage = None THEN acc
    ELSE LET usage == e.usage[1]
         IN  [acc EXCEPT
                !.output_tokens = unwrap_or(usage.output_tokens, 0),
                !.cache_read_tokens = unwrap_or(usage.cache_read_input_tokens, 0)]

\* the "message_delta" arm: a flat value replaces the total and leaves the
\* 1h count as it was
message_delta(acc, e) ==
    IF e.usage = None THEN acc
    ELSE LET usage == e.usage[1]
             cache == IF usage.cache_creation_input_tokens # None
                      THEN <<usage.cache_creation_input_tokens[1],
                             acc.cache_creation_1h_tokens>>
                      ELSE IF usage.cache_creation # None
                      THEN ephemeral(usage.cache_creation[1])
                      ELSE <<acc.cache_creation_tokens,
                             acc.cache_creation_1h_tokens>>
         IN  [acc EXCEPT
                !.output_tokens =
                    unwrap_or(usage.output_tokens, acc.output_tokens),
                !.cache_creation_tokens = cache[1],
                !.cache_creation_1h_tokens = cache[2],
                !.cache_read_tokens =
                    unwrap_or(usage.cache_read_input_tokens,
                              acc.cache_read_tokens)]

RECURSIVE claude_fold(_, _)
claude_fold(acc, events) ==
    IF events = <<>> THEN acc
    ELSE LET e == Head(events)
             next == CASE e.type = "message_start" -> message_start(acc, e)
                       [] e.type = "message_delta" -> message_delta(acc, e)
                       [] OTHER -> acc
         IN  claude_fold(next, Tail(events))

\* ClaudeProcessor::process_sse_response: None stands for Err
claude_process_sse_response(request_model, sse_chunks) ==
    IF request_model = None THEN None
    ELSE LET acc == claude_fold(
                 [message_id |-> None, input_tokens |-> 0,
                  output_tokens |-> 0, cache_creation_tokens |-> 0,
                  cache_creation_1h_tokens |-> 0, cache_read_tokens |-> 0],
                 sse_chunks)
         IN  IF acc.message_id = None THEN None
             ELSE Some(TokenInfo(request_model[1], acc.message_id[1],
                                 acc.input_tokens, acc.output_tokens,
                                 acc.cache_creation_tokens,
                                 acc.cache_creation_1h_tokens,
                                 acc.cache_read_tokens, 0))

\* ClaudeProcessor::process_json_response
claude_process_json_response(request_model, json) ==
    LET model == IF json.model # None THEN json.model ELSE request_model
    IN  IF model = None \/ json.id = None \/ json.usage = None THEN None
        ELSE LET usage == json.usage[1]
                 cache == IF usage.cache_creation_input_tokens # None
                          THEN <<usage.cache_creation_input_tokens[1], 0>>
                          ELSE IF usage.cache_creation # None
                          THEN ephemeral(usage.cache_creation[1])
                          ELSE <<0, 0>>
             IN  Some(TokenInfo(model[1], json.id[1],
                                unwrap_or(usage.input_tokens, 0),
                                unwrap_or(usage.output_tokens, 0),
                                cache[1], cache[2],
                                unwrap_or(usage.cache_read_input_tokens, 0),
                                0))

\* ---- the applications ---------------------------------------------------

RequestModels == {None, Some("m")}

ApplyCodexSse ==
    /\ call.fn = "none"
    /\ \E m \in RequestModels, chunks \in SeqsUpTo(CodexEvents, 2) :
         call' = [fn |-> "codex_sse", request_model |-> m, events |-> chunks,
                  out |-> codex_process_sse_response(m, chunks)]
    /\ UNCHANGED outsideCall

ApplyCodexJson ==
    /\ call.fn = "none"
    /\ \E m \in RequestModels, id \in {None, Some("resp_1")},
          usage \in {None} \cup {Some(u) : u \in CodexUsages} :
         LET json == [model |-> None, id |-> id, usage |-> usage]
         IN  call' = [fn |-> "codex_json", request_model |-> m,
                      events |-> <<json>>,
                      out |-> codex_process_json_response(m, json)]
    /\ UNCHANGED outsideCall

ApplyClaudeSse ==
    /\ call.fn = "none"
    /\ \E chunks \in SeqsUpTo(ClaudeEvents, 2) :
         call' = [fn |-> "claude_sse", request_model |-> Some("m"),
                  events |-> chunks,
                  out |-> claude_process_sse_response(Some("m"), chunks)]
    /\ UNCHANGED outsideCall

ApplyClaudeJson ==
    /\ call.fn = "none"
    /\ \E m \in RequestModels, id \in {None, Some("msg_1")},
          usage \in {None} \cup {Some(u) : u \in ClaudeUsages} :
         LET json == [model |-> None, id |-> id, usage |-> usage]
         IN  call' = [fn |-> "claude_json", request_model |-> m,
                      events |-> <<json>>,
                      out |-> claude_process_json_response(m, json)]
    /\ UNCHANGED outsideCall

NextTokens ==
    \/ ApplyCodexSse
    \/ ApplyCodexJson
    \/ ApplyClaudeSse
    \/ ApplyClaudeJson

SpecTokens == InitProcessor /\ [][NextTokens]_vars

\* the usage objects a response reported, in order
ReportedUsages ==
    [i \in 1..Len(SelectSeq(call.events, LAMBDA e : e.usage # None)) |->
        SelectSeq(call.events, LAMBDA e : e.usage # None)[i].usage[1]]

\* C24: for a Codex response (stream or buffered) that reported a usage
\* with input_tokens, the TokenInfo's input_tokens is usage.input_tokens
\* less cached_tokens (absent: 0), its cache_read_tokens is cached_tokens,
\* and the two add up to the reported total input.
C24_CodexInputExcludesCached ==
    (/\ call.fn \in {"codex_sse", "codex_json"}
     /\ call.out # None
     /\ ReportedUsages # <<>>
     /\ ReportedUsages[Len(ReportedUsages)].input_tokens # None)
    => LET usage == ReportedUsages[Len(ReportedUsages)]
           cached == IF usage.cached_tokens = None THEN 0
                     ELSE usage.cached_tokens[1]
       IN  /\ call.out[1].input_tokens = usage.input_tokens[1] - cached
           /\ call.out[1].cache_read_tokens = cached
           /\ call.out[1].input_tokens + call.out[1].cache_read_tokens
                = usage.input_tokens[1]

C24_Witness ==
    /\ call.fn = "codex_sse"
    /\ call.out # None
    /\ ReportedUsages # <<>>
    /\ ReportedUsages[Len(ReportedUsages)].input_tokens = Some(2)
    /\ ReportedUsages[Len(ReportedUsages)].cached_tokens = Some(1)
    /\ call.out[1].input_tokens = 1
    /\ call.out[1].cache_read_tokens = 1

\* C25: every count of a TokenInfo is >= 0 and the 1h cache-creation count
\* does not exceed the cache-creation total (the reported numbers of the
\* drawn responses are all non-negative).
C25_CountsNonNegativeAnd1hWithinTotal ==
    (call.fn \in {"codex_sse", "codex_json", "claude_sse", "claude_json"}
     /\ call.out # None)
    => LET info == call.out[1]
       IN  /\ info.input_tokens >= 0
           /\ info.output_tokens >= 0
           /\ info.cache_creation_tokens >= 0
           /\ info.cache_creation_1h_tokens >= 0
           /\ info.cache_read_tokens >= 0
           /\ info.reasoning_tokens >= 0
           /\ info.cache_creation_1h_tokens <= info.cache_creation_tokens

\* ======================================================================
\* Part VII - what the bodies of the proxy's answers contain.   SpecLeak
\* ======================================================================

\* An upstream that repeats the credential it was sent in its body: the
\* JSON body "echo" and the SSE chunk "echo" (neither is an event line).
LeakEnv ==
    [authorization |-> {None, Some(Text(<<"Bearer ">> \o K2))},
     x_api_key |-> {None, Some(Text(K1))},
     path |-> {"/v1/messages", CountTokensPath},
     method |-> {"POST"},
     body |-> {"json"},
     session |-> {None, CustomSession, SelfSession},
     amp |-> {None, AmpProfile("Claude")},
     status |-> {200, 401}, is_sse |-> BOOLEAN,
     chunk |-> {"id", "echo"}, json |-> {"json_ok", "echo"}]

LeakConfigs ==
    {ToolProxyConfig(Some(K1), Some(A1), Some(U1), None),
     ToolProxyConfig(Some(K1), None, Some(U1), None)}

InitLeak ==
    /\ StoreIdle
    /\ LifeIdle
    /\ LedgerStart
    /\ CallIdle
    /\ CheckinIdle
    /\ PricingIdle
    /\ tool \in Tools
    /\ config \in LeakConfigs
    /\ cfgVer = 0
    /\ server_handle = 0
    /\ loops = 0
    /\ nreq = 0
    /\ req = IdleRequest
    /\ rows = <<>>

NextLeak ==
    \/ start
    \/ Accept(LeakEnv)
    \/ HandleEntry
    \/ ReadBody(LeakEnv)
    \/ ReadBodyFails
    \/ ProcessOutgoing(LeakEnv)
    \/ UpstreamFails
    \/ UpstreamResponds(LeakEnv)
    \/ StreamChunk(LeakEnv)
    \/ StreamEnds
    \/ StreamErrors
    \/ SettleTimer
    \/ JsonBodyRead(LeakEnv)
    \/ JsonBodyFails
    \/ JsonRecorder

SpecLeak == InitLeak /\ [][NextLeak]_vars

\* The credentials found in the body the client has received for r.  The
\* bodies of utils/error_responses.rs are fixed texts around the tool id or
\* the error's message; the messages handle_request passes are the context
\* "处理出站请求失败", hyper's and reqwest's own texts and, for a failed send,
\* reqwest's text with the target URL.  An upstream body is handed on as it
\* came (lines 371-383 and 428-463).
body_credentials(r) ==
    IF r.resp = None \/ r.resp[1].kind # "upstream" THEN {}
    ELSE IF r.is_sse
         THEN IF \E i \in 1..Len(r.client) : r.client[i].kind = "echo"
              THEN {r.api_key[1]} ELSE {}
         ELSE IF r.jsonBody = "echo" THEN {r.api_key[1]} ELSE {}

\* the status line of the answer is outside 200..299
non_2xx(response) ==
    "status" \notin DOMAIN response
    \/ response.status < 200 \/ response.status > 299

\* C26: the body of an answer with a status other than 2xx contains neither
\* the upstream API key (configured, of the session or of the profile) nor
\* the local shared secret.
C26_NoCredentialInErrorBody ==
    (req.resp # None /\ non_2xx(req.resp[1]))
    => body_credentials(req) \cap {A1, SessionKey, ProfileKey, K1} = {}

\* ======================================================================
\* Part VIII - LogRecorder::record applied to drawn responses, with the
\* rows in full.                                           SpecRecorder
\* ======================================================================

\* StatusCode::canonical_reason of the statuses drawn
canonical_reason(code) ==
    CASE code = 200 -> Some("OK")
      [] code = 404 -> Some("Not Found")
      [] code = 429 -> Some("Too Many Requests")
      [] code = 500 -> Some("Internal Server Error")
      [] OTHER -> None

\* format!("HTTP {}: {}", status, canonical_reason().unwrap_or("Unknown"))
http_error_detail(status, code) ==
    <<"HTTP ", status, ": ", unwrap_or(canonical_reason(code), "Unknown")>>

\* The default-template mapping of the pricing manager.
default_template(tool_id) ==
    IF tool_id = "codex" THEN "builtin_openai" ELSE "builtin_claude"

\* PRICING_MANAGER.calculate_cost: the template chosen is template_id or
\* the tool's default; `priced` is the set of templates in which the model
\* resolves.  None stands for Err; each unit price is 1.
calculate_cost(template_id, tool_id, token_info, priced) ==
    LET chosen == unwrap_or(template_id, default_template(tool_id))
    IN  IF chosen \notin priced THEN None
        ELSE Some([template_id |-> chosen,
                   input_price |-> token_info.input_tokens,
                   output_price |-> token_info.output_tokens,
                   cache_write_price |-> token_info.cache_creation_tokens,
                   cache_read_price |-> token_info.cache_read_tokens,
                   reasoning_price |-> token_info.reasoning_tokens,
                   total_cost |-> token_info.input_tokens
                                  + token_info.output_tokens
                                  + token_info.cache_creation_tokens
                                  + token_info.cache_read_tokens
                                  + token_info.reasoning_tokens])

\* the counts and identity every row takes from a TokenInfo
row_of(tool_id, token_info, status, response_type) ==
    [tool_type |-> tool_id, model |-> token_info.model,
     message_id |-> Some(token_info.message_id),
     input_tokens |-> token_info.input_tokens,
     output_tokens |-> token_info.output_tokens,
     cache_creation_tokens |-> token_info.cache_creation_tokens,
     cache_creation_1h_tokens |-> token_info.cache_creation_1h_tokens,
     cache_read_tokens |-> token_info.cache_read_tokens,
     reasoning_tokens |-> token_info.reasoning_tokens,
     status |-> status, response_type |-> response_type,
     error_type |-> None, error_detail |-> None]

priced_fields(breakdown) ==
    [input_price |-> Some(breakdown.input_price),
     output_price |-> Some(breakdown.output_price),
     cache_write_price |-> Some(breakdown.cache_write_price),
     cache_read_price |-> Some(breakdown.cache_read_price),
     reasoning_price |-> Some(breakdown.reasoning_price),
     total_cost |-> breakdown.total_cost,
     pricing_template_id |-> Some(breakdown.template_id)]

unpriced_fields ==
    [input_price |-> None, output_price |-> None, cache_write_price |-> None,
     cache_read_price |-> None, reasoning_price |-> None, total_cost |-> 0,
     pricing_template_id |-> None]

\* r extended by the fields of t
with_fields(r, t) ==
    [f \in DOMAIN r \cup DOMAIN t |-> IF f \in DOMAIN t THEN t[f] ELSE r[f]]

\* build_log with a failed cost calculation turned into a failed row
build_log_failing(tool_id, token_info, response_type, status, priced) ==
    LET cost_result == calculate_cost(None, tool_id, token_info, priced)
    IN  IF cost_result = None
        THEN with_fields(row_of(tool_id, token_info, "failed", response_type),
                         unpriced_fields)
        ELSE with_fields(row_of(tool_id, token_info, status, response_type),
                         priced_fields(cost_result[1]))

\* ClaudeLogger::build_log and CodexLogger::build_log: the cost is asked for
\* with no template id
build_log(tool_id, token_info, response_type, status, priced) ==
    LET cost_result == calculate_cost(None, tool_id, token_info, priced)
    IN  with_fields(row_of(tool_id, token_info, status, response_type),
                    IF cost_result = None THEN unpriced_fields
                    ELSE priced_fields(cost_result[1]))

\* TokenLogger::log_failed_request of both loggers
log_failed_request(tool_id, request_model, error_type, error_detail) ==
    with_fields(
        [tool_type |-> tool_id, model |-> unwrap_or(request_model, "unknown"),
         message_id |-> None,
         input_tokens |-> 0, output_tokens |-> 0,
         cache_creation_tokens |-> 0, cache_creation_1h_tokens |-> 0,
         cache_read_tokens |-> 0, reasoning_tokens |-> 0,
         status |-> "failed", response_type |-> "unknown",
         error_type |-> Some(error_type),
         error_detail |-> Some(error_detail)],
        unpriced_fields)

\* RequestLogContext::resolve_pricing_template_id; `session` is what
\* get_session_config(..).ok().flatten() gives
resolve_pricing_template_id(session, proxy_template_id) ==
    IF session # None /\ session[1].pricing_template_id # None
    THEN session[1].pricing_template_id
    ELSE proxy_template_id

\* create_processor(tool_id)?.process_sse_response / process_json_response
process_response(tool_id, request_model, parsed) ==
    CASE tool_id = "codex" /\ parsed.tag = "Sse" ->
            codex_process_sse_response(request_model, parsed.data_lines)
      [] tool_id = "codex" /\ parsed.tag = "Json" ->
            codex_process_json_response(request_model, parsed.data)
      [] tool_id # "codex" /\ parsed.tag = "Sse" ->
            claude_process_sse_response(request_model, parsed.data_lines)
      [] tool_id # "codex" /\ parsed.tag = "Json" ->
            claude_process_json_response(request_model, parsed.data)

\* LogRecorder::record: the rows handed to write_log (none when
\* create_logger fails)
LogRecorder_record(context, response_status, parsed, priced) ==
    LET code == status_code(response_status)
        failed(error_type, error_detail) ==
            <<log_failed_request(context.tool_id, context.model, error_type,
                                 error_detail)>>
    IN  IF ~create_logger_ok(context.tool_id) THEN <<>>
        ELSE IF is_http_error(code)
        THEN failed("upstream_error",
                    http_error_detail(response_status, code))
        ELSE CASE parsed.tag \in {"Sse", "Json"} ->
                    LET token_info == process_response(context.tool_id,
                                                       context.model, parsed)
                        response_type == IF parsed.tag = "Sse" THEN "sse"
                                         ELSE "json"
                    IN  IF token_info = None
                        THEN failed("parse_error", <<"token extraction failed">>)
                        ELSE <<build_log(context.tool_id, token_info[1],
                                         response_type, "success", priced)>>
               [] parsed.tag = "Empty" ->
                    failed("upstream_error", <<"empty response body">>)
               [] parsed.tag = "ParseError" ->
                    failed("parse_error", <<"response parse failed">>)

\* ---- the application ------------------------------------------------------

RecordStatuses == {200, 302, 404, 429, 499, 500, 600}

\* usages and events of the parsed bodies handed to record
RecordUsages(tool_id) ==
    IF tool_id = "codex"
    THEN {u \in CodexUsages : /\ u.input_tokens # None
                              /\ u.output_tokens = Some(1)
                              /\ u.reasoning_tokens = None}
    ELSE {u \in ClaudeUsages : /\ u.cache_creation = None
                               /\ u.cache_read_input_tokens = None}

ParsedResponses(tool_id) ==
    LET usages == {None} \cup {Some(u) : u \in RecordUsages(tool_id)}
        type == IF tool_id = "codex" THEN "response.completed"
                ELSE "message_start"
    IN  {[tag |-> "Empty"]}
        \cup [tag : {"ParseError"}, response_type : {"sse", "json"}]
        \cup {[tag |-> "Sse",
               data_lines |-> <<[type |-> type, id |-> id, usage |-> u]>>] :
                 id \in {None, Some("id_1")}, u \in usages}
        \cup {[tag |-> "Json",
               data |-> [model |-> None, id |-> id, usage |-> u]] :
                 id \in {None, Some("id_1")}, u \in usages}

Sessions ==
    {None, Some([pricing_template_id |-> None]),
     Some([pricing_template_id |-> Some("session_template")])}

ApplyRecord ==
    /\ call.fn = "none"
    /\ \E tool_id \in {"claude-code", "codex", "gemini-cli"},
          model \in RequestModels, response_status \in RecordStatuses,
          session \in Sessions,
          proxy_template_id \in {None, Some("proxy_template")},
          priced \in {{}, {"builtin_claude", "builtin_openai"},
                      {"builtin_claude", "builtin_openai",
                       "session_template", "proxy_template"}} :
         \E parsed \in ParsedResponses(tool_id) :
           LET context ==
                   [tool_id |-> tool_id, model |-> model,
                    pricing_template_id |->
                        resolve_pricing_template_id(session,
                                                    proxy_template_id)]
           IN  call' = [fn |-> "record", context |-> context,
                        response_status |-> response_status,
                        parsed |-> parsed, priced |-> priced,
                        out |-> LogRecorder_record(context, response_status,
                                                   parsed, priced)]
    /\ UNCHANGED outsideCall

NextRecorder == ApplyRecord

SpecRecorder == InitProcessor /\ [][NextRecorder]_vars

\* the call was made for a tool that has a logger
Recorded == call.fn = "record" /\ create_logger_ok(call.context.tool_id)

\* the token extraction of the recorded call
Extracted ==
    process_response(call.context.tool_id, call.context.model, call.parsed)

ResponseTypeOf(parsed) ==
    CASE parsed.tag = "Sse" -> Some("sse")
      [] parsed.tag = "Json" -> Some("json")
      [] parsed.tag = "ParseError" -> Some(parsed.response_type)
      [] OTHER -> None

\* C28: a failed row carries the response type of its response (json for a
\* buffered one, sse for a stream), every token count 0 and total_cost 0.
C28_FailedRowKeepsResponseType ==
    (/\ Recorded
     /\ call.out[1].status = "failed"
     /\ ResponseTypeOf(call.parsed) # None)
    => LET row == call.out[1]
       IN  /\ Some(row.response_type) = ResponseTypeOf(call.parsed)
           /\ row.input_tokens = 0
           /\ row.output_tokens = 0
           /\ row.cache_creation_tokens = 0
           /\ row.cache_creation_1h_tokens = 0
           /\ row.cache_read_tokens = 0
           /\ row.reasoning_tokens = 0
           /\ row.total_cost = 0

\* the response was parsed, its tokens extracted, and the cost calculation
\* the logger asked for failed
CostFailed ==
    /\ Recorded
    /\ ~is_http_error(status_code(call.response_status))
    /\ call.parsed.tag \in {"Sse", "Json"}
    /\ Extracted # None
    /\ calculate_cost(None, call.context.tool_id, Extracted[1], call.priced)
         = None

\* C29: when the cost calculation fails for a parsed response, exactly one
\* row is written: status success, the extracted counts unchanged,
\* total_cost 0, no per-field price and no pricing_template_id.
C29_PricingFailureKeepsSuccessRow ==
    CostFailed =>
      /\ Len(call.out) = 1
      /\ LET row == call.out[1]
             info == Extracted[1]
         IN  /\ row.status = "success"
             /\ row.error_type = None
             /\ row.input_tokens = info.input_tokens
             /\ row.output_tokens = info.output_tokens
             /\ row.cache_creation_tokens = info.cache_creation_tokens
             /\ row.cache_creation_1h_tokens = info.cache_creation_1h_tokens
             /\ row.cache_read_tokens = info.cache_read_tokens
             /\ row.reasoning_tokens = info.reasoning_tokens
             /\ row.total_cost = 0
             /\ row.input_price = None
             /\ row.output_price = None
             /\ row.cache_write_price = None
             /\ row.cache_read_price = None
             /\ row.reasoning_price = None
             /\ row.pricing_template_id = None

C29_Witness ==
    /\ CostFailed
    /\ call.out[1].status = "success"
    /\ call.out[1].input_tokens > 0
    /\ call.out[1].output_tokens > 0
    /\ call.out[1].pricing_template_id = None

\* C30: a success row is priced with the session's template when the
\* session has one, else with the proxy configuration's, else with the
\* tool's default, and pricing_template_id names that template (absent
\* when the model is not priced in it).
C30_TemplateOfSessionThenProxyThenDefault ==
    (Recorded /\ call.out[1].status = "success")
    => LET wanted == unwrap_or(call.context.pricing_template_id,
                               default_template(call.context.tool_id))
       IN  call.out[1].pricing_template_id =
             IF wanted \in call.priced THEN Some(wanted) ELSE None

\* ======================================================================
\* Part IX - the Amp processor's routing (services/proxy/headers/
\* amp_processor.rs) applied to drawn requests.                 SpecAmp
\* ======================================================================
\* A path and a model name are sequences of pieces that are never split;
\* the patterns looked for are sequences of the same pieces.

MaxAmpPath == 2

PathPieces ==
    {"/v1", "/messages", "/chat", "/completions", "/responses", "/v1beta",
     ":generateContent", ":streamGenerateContent", "/models"}

ModelNames ==
    {<<"gemini", "-2.0-flash">>, <<"Gemini">>, <<"claude", "-3">>,
     <<"gpt", "-4">>, <<"o1">>, <<"o3", "-mini">>, <<"x-", "o1">>,
     <<"claude", "-gemini">>, <<"gpt", "-claude">>, <<"llama">>}

\* str::to_lowercase, piece by piece
to_lowercase(str) ==
    [i \in 1..Len(str) |->
        CASE str[i] = ":generateContent" -> ":generatecontent"
          [] str[i] = ":streamGenerateContent" -> ":streamgeneratecontent"
          [] str[i] = "Gemini" -> "gemini"
          [] OTHER -> str[i]]

\* str::contains, str::starts_with and str::ends_with
contains(str, pat) ==
    \E i \in 1..(Len(str) - Len(pat) + 1) :
        SubSeq(str, i, i + Len(pat) - 1) = pat
starts_with(str, pat) ==
    Len(pat) <= Len(str) /\ SubSeq(str, 1, Len(pat)) = pat
ends_with(str, pat) ==
    Len(pat) <= Len(str)
    /\ SubSeq(str, Len(str) - Len(pat) + 1, Len(str)) = pat

\* the three path rules, lines 47-66
path_is_claude(path_lower) ==
    contains(path_lower, <<"/messages">>)
    /\ ~contains(path_lower, <<"/chat", "/completions">>)
path_is_codex(path_lower) ==
    \/ contains(path_lower, <<"/chat", "/completions">>)
    \/ contains(path_lower, <<"/responses">>)
    \/ ends_with(path_lower, <<"/completions">>)
path_is_gemini(path_lower) ==
    \/ contains(path_lower, <<"/v1beta">>)
    \/ contains(path_lower, <<":generatecontent">>)
    \/ contains(path_lower, <<":streamgeneratecontent">>)

\* the body rule, lines 74-97: None when the body is empty, is not JSON,
\* has no string `model`, or names a model of no known family
model_api_type(body) ==
    IF body.kind # "json" \/ body.model = None THEN None
    ELSE LET model_lower == to_lowercase(body.model[1])
         IN  IF contains(model_lower, <<"gemini">>) THEN Some("Gemini")
             ELSE IF contains(model_lower, <<"claude">>) THEN Some("Claude")
             ELSE IF \/ contains(model_lower, <<"gpt">>)
                     \/ starts_with(model_lower, <<"o1">>)
                     \/ starts_with(model_lower, <<"o3">>)
             THEN Some("Codex")
             ELSE None

\* detect_api_type with the header looked at before the path
detect_api_type_header_first(path, headers, body) ==
    LET path_lower == to_lowercase(path)
    IN  IF "anthropic-version" \in DOMAIN headers THEN "Claude"
        ELSE IF path_is_claude(path_lower) THEN "Claude"
        ELSE IF path_is_codex(path_lower) THEN "Codex"
        ELSE IF path_is_gemini(path_lower) THEN "Gemini"
        ELSE unwrap_or(model_api_type(body), "Claude")

\* AmpHeadersProcessor::detect_api_type
detect_api_type(path, headers, body) ==
    LET path_lower == to_lowercase(path)
    IN  IF path_is_claude(path_lower) THEN "Claude"
        ELSE IF path_is_codex(path_lower) THEN "Codex"
        ELSE IF path_is_gemini(path_lower) THEN "Gemini"
        ELSE IF "anthropic-version" \in DOMAIN headers THEN "Claude"
        ELSE unwrap_or(model_api_type(body), "Claude")

AmpBodies ==
    {[kind |-> "empty", model |-> None], [kind |-> "garbage", model |-> None],
     [kind |-> "json", model |-> None]}
    \cup {[kind |-> "json", model |-> Some(m)] : m \in ModelNames}

AmpHeaders ==
    {[n \in S |-> ClientValue(n)] :
        S \in SUBSET {"anthropic-version", "authorization"}}

\* AmpHeadersProcessor::process_outgoing_request: the type is detected, the
\* profile selected for it is taken (none selected: an error) and the
\* request is built by the delegate.
ApplyAmp ==
    /\ call.fn = "none"
    /\ \E path \in SeqsUpTo(PathPieces, MaxAmpPath), h \in AmpHeaders,
          body \in AmpBodies, selected \in BOOLEAN :
         LET api_type == detect_api_type(path, h, body)
             amp == IF selected THEN AmpProfile(api_type) ELSE None
             processed == process_outgoing_request(
                              "amp-code", U1, A1,
                              IF body.kind = "json" THEN "json_no_session"
                              ELSE body.kind, None, amp)
         IN  call' = [fn |-> "amp", path |-> path, original_headers |-> h,
                      body |-> body, api_type |-> api_type,
                      out |-> IF processed.ok
                              THEN [ok |-> TRUE,
                                    headers |-> outgoing_headers(
                                        "amp-code", amp, h,
                                        processed.api_key[1])]
                              ELSE [ok |-> FALSE]]
    /\ UNCHANGED outsideCall

NextAmp == ApplyAmp

SpecAmp == InitProcessor /\ [][NextAmp]_vars

\* C31: an Amp request with path /completions and a body whose model is
\* gemini-2.0-flash is classified as Gemini; its outbound headers carry
\* x-goog-api-key and no authorization.
C31_CompletionsWithGeminiModelIsGemini ==
    (/\ call.fn = "amp"
     /\ call.path = <<"/completions">>
     /\ call.body.model = Some(<<"gemini", "-2.0-flash">>))
    => /\ call.api_type = "Gemini"
       /\ call.out.ok =>
            /\ "x-goog-api-key" \in DOMAIN call.out.headers
            /\ "authorization" \notin DOMAIN call.out.headers

\* C34: the rules apply in strict order - the path rules (messages without
\* chat/completions; chat/completions, responses or a completions suffix;
\* v1beta or generateContent), the anthropic-version header, the body's
\* model, Claude - and an empty, unparseable or model-less body falls
\* through to Claude.
C34_RulesInPriorityOrder ==
    call.fn = "amp" =>
      LET p == to_lowercase(call.path)
          by_path == IF path_is_claude(p) THEN Some("Claude")
                     ELSE IF path_is_codex(p) THEN Some("Codex")
                     ELSE IF path_is_gemini(p) THEN Some("Gemini")
                     ELSE None
          by_header == IF "anthropic-version" \in DOMAIN call.original_headers
                       THEN Some("Claude") ELSE None
          by_body == model_api_type(call.body)
      IN  /\ call.api_type \in {"Claude", "Codex", "Gemini"}
          /\ by_path # None => call.api_type = by_path[1]
          /\ (by_path = None /\ by_header # None)
               => call.api_type = by_header[1]
          /\ (by_path = None /\ by_header = None /\ by_body # None)
               => call.api_type = by_body[1]
          /\ (by_path = None /\ by_header = None /\ by_body = None)
               => call.api_type = "Claude"
          /\ (by_path = None /\ by_header = None /\ call.body.model = None)
               => call.api_type = "Claude"

\* a responses path beats the header and a Gemini model
C34_Witness ==
    /\ call.fn = "amp"
    /\ call.path = <<"/v1", "/responses">>
    /\ "anthropic-version" \in DOMAIN call.original_headers
    /\ call.body.model = Some(<<"gemini", "-2.0-flash">>)
    /\ call.api_type = "Codex"


(***************************************************************************)
(* Part X - JsonStore / TomlStore (services/config_store.rs).  One call of *)
(* update or write at a time, one file-system step at a time; the process  *)
(* may stop between any two steps, and a reader may read between any two.  *)
(* TomlStore (lines 87-139) repeats JsonStore (lines 20-75) step for step. *)
(***************************************************************************)
MaxStoreCalls == 2       \* calls of update / write / read explored

\* What a path holds: a whole document, no byte yet (the file was just
\* created or truncated), or the first bytes of a document.
Complete(doc) == [state |-> "complete", doc |-> doc]
Truncated == [state |-> "empty", doc |-> <<>>]
Partial(doc) == [state |-> "partial", doc |-> doc]

EmptyObject == <<>>      \* Value::Object(Map::new()) / DocumentMut::new()
StoredDocument == <<0>>  \* the document a store holds before the first call

InitStore ==
    /\ LedgerStart
    /\ ProxyIdle
    /\ CallIdle
    /\ CheckinIdle
    /\ PricingIdle
    /\ LifeIdle
    /\ disk \in {[target |-> t, tmp |-> None, backup |-> None] :
                    t \in {None, Some(Complete(StoredDocument))}}
    /\ store_calls = <<>>

\* the call in flight, if any: calls are made one after the other
InFlight == store_calls # <<>> /\ store_calls[Len(store_calls)].pc \notin {"done", "failed", "crashed"}

Current == store_calls[Len(store_calls)]

Step(pc, doc) == store_calls' = [store_calls EXCEPT ![Len(store_calls)].pc = pc, ![Len(store_calls)].doc = doc]

\* JsonStore::read (lines 35-48): a missing file and an empty file both
\* read as the empty object; anything else is parsed.
read(files) ==
    IF files.target = None THEN [ok |-> TRUE, doc |-> EmptyObject]
    ELSE IF files.target[1].state = "empty" THEN [ok |-> TRUE, doc |-> EmptyObject]
    ELSE IF files.target[1].state = "partial" THEN [ok |-> FALSE]
    ELSE [ok |-> TRUE, doc |-> files.target[1].doc]

\* JsonStore::update is called (line 20).
CallUpdate ==
    /\ ~InFlight
    /\ Len(store_calls) < MaxStoreCalls
    /\ store_calls' = Append(store_calls, [op |-> "update", pc |-> "read", doc |-> EmptyObject, before |-> disk.target, seen |-> None])
    /\ UNCHANGED disk
    /\ UNCHANGED outsideStore

\* JsonStore::write is called with a document of the caller (line 50).
CallWrite ==
    /\ ~InFlight
    /\ Len(store_calls) < MaxStoreCalls
    /\ store_calls' = Append(store_calls, [op |-> "write", pc |-> "tmp_create", doc |-> <<Len(store_calls) + 1>>, before |-> disk.target, seen |-> None])
    /\ UNCHANGED disk
    /\ UNCHANGED outsideStore

\* line 24: let mut doc = self.read()?
UpdateRead ==
    /\ InFlight
    /\ Current.pc = "read"
    /\ IF read(disk).ok THEN Step("backup", read(disk).doc) ELSE Step("failed", Current.doc)
    /\ UNCHANGED disk
    /\ UNCHANGED outsideStore

\* lines 26-28: if self.path.exists() { backup_json(&self.path)? }
UpdateBackup ==
    /\ InFlight
    /\ Current.pc = "backup"
    /\ disk' = IF disk.target = None THEN disk ELSE [disk EXCEPT !.backup = disk.target]
    /\ Step("mutate", Current.doc)
    /\ UNCHANGED outsideStore

\* line 30: mutator(&mut doc)?  The mutator changes the document, or fails.
UpdateMutate ==
    /\ InFlight
    /\ Current.pc = "mutate"
    /\ \/ Step("tmp_create", Append(Current.doc, Len(store_calls)))
       \/ Step("failed", Current.doc)
    /\ UNCHANGED disk
    /\ UNCHANGED outsideStore

\* line 54: fs::write(&tmp_path, content) creates or truncates the .tmp
\* file, then writes the bytes, which reach the file in one or more writes.
TmpCreate ==
    /\ InFlight
    /\ Current.pc = "tmp_create"
    /\ disk' = [disk EXCEPT !.tmp = Some(Truncated)]
    /\ Step("tmp_write", Current.doc)
    /\ UNCHANGED outsideStore

TmpWrite ==
    /\ InFlight
    /\ Current.pc = "tmp_write"
    /\ \/ /\ disk.tmp = Some(Truncated)
          /\ disk' = [disk EXCEPT !.tmp = Some(Partial(Current.doc))]
          /\ Step("tmp_write", Current.doc)
       \/ /\ disk' = [disk EXCEPT !.tmp = Some(Complete(Current.doc))]
          /\ Step("exists", Current.doc)
    /\ UNCHANGED outsideStore

\* replace_with_tmp, lines 69-75: `if self.path.exists()`
ReplaceExists ==
    /\ InFlight
    /\ Current.pc = "exists"
    /\ Step(IF disk.target = None THEN "rename" ELSE "remove", Current.doc)
    /\ UNCHANGED disk
    /\ UNCHANGED outsideStore

\* line 71: fs::remove_file(&self.path)?
ReplaceRemove ==
    /\ InFlight
    /\ Current.pc = "remove"
    /\ disk' = [disk EXCEPT !.target = None]
    /\ Step("rename", Current.doc)
    /\ UNCHANGED outsideStore

\* line 73: fs::rename(tmp_path, &self.path)?
ReplaceRename ==
    /\ InFlight
    /\ Current.pc = "rename"
    /\ disk' = [disk EXCEPT !.target = disk.tmp, !.tmp = None]
    /\ Step("done", Current.doc)
    /\ UNCHANGED outsideStore

\* The process stops (crash, kill, power loss) between two steps of the
\* call: the files stay as they are.
Crash ==
    /\ InFlight
    /\ Step("crashed", Current.doc)
    /\ UNCHANGED disk
    /\ UNCHANGED outsideStore

\* Another thread calls JsonStore::read while the call is in flight (its
\* answer is kept with the call, once per call).
ConcurrentRead ==
    /\ InFlight
    /\ Current.seen = None
    /\ store_calls' = [store_calls EXCEPT ![Len(store_calls)].seen = Some(read(disk))]
    /\ UNCHANGED disk
    /\ UNCHANGED outsideStore

NextStore ==
    \/ CallUpdate
    \/ CallWrite
    \/ UpdateRead
    \/ UpdateBackup
    \/ UpdateMutate
    \/ TmpCreate
    \/ TmpWrite
    \/ ReplaceExists
    \/ ReplaceRemove
    \/ ReplaceRename
    \/ Crash
    \/ ConcurrentRead

SpecStore == InitStore /\ [][NextStore]_vars

\* C32: at every point of a call of update or write, and after a crash at
\* that point, the target path holds either the whole content it had before
\* the call or the whole content the call writes.
C32_TargetHoldsPreviousOrNew ==
    store_calls # <<>> =>
        disk.target \in {Current.before, Some(Complete(Current.doc))}

\* the same for the reader: what a concurrent read returns is the document
\* before the call or the document the call writes
ReaderSeesPreviousOrNew ==
    (store_calls # <<>> /\ Current.seen # None) =>
        /\ Current.seen[1].ok
        /\ \/ Current.seen[1].doc = Current.doc
           \/ Current.before # None /\ Current.seen[1].doc = Current.before[1].doc
           \/ Current.before = None /\ Current.seen[1].doc = EmptyObject


(***************************************************************************)
(* Part XI - ProxyInstance::start and stop (proxy_instance.rs:51-158), one *)
(* await at a time, called from several tasks.  server_handle and loops    *)
(* are Part II's; accept_loops keeps the state of each spawned accept      *)
(* loop, start_stop the calls made so far.                                 *)
(***************************************************************************)
MaxInstanceCalls == 3    \* calls of start / stop explored

InitInstance ==
    /\ LedgerStart
    /\ ProxyIdle
    /\ CallIdle
    /\ CheckinIdle
    /\ PricingIdle
    /\ StoreIdle
    /\ LifeIdle

\* the accept loops that hold the listener: an aborted task drops its
\* TcpListener only when the runtime cancels it
PortInUse == \E i \in 1..Len(accept_loops) : accept_loops[i] \in {"live", "aborted"}

LiveLoops == {i \in 1..Len(accept_loops) : accept_loops[i] = "live"}

Return(c, result) == start_stop' = [start_stop EXCEPT ![c].pc = "done", ![c].result = result]

restOfProxy == <<tool, config, cfgVer, nreq, req, rows>>

\* a task calls start (line 51) or stop (line 146)
CallStartStop ==
    /\ Len(start_stop) < MaxInstanceCalls
    /\ \E op \in {"start", "stop"} :
          start_stop' = Append(start_stop, [op |-> op, pc |-> IF op = "start" THEN "check" ELSE "take", result |-> "none", handle |-> 0])
    /\ UNCHANGED <<server_handle, loops, accept_loops, running, tick_loops, restOfProxy>>
    /\ UNCHANGED outsideLife

\* lines 53-58: under the read lock, `if handle.is_some() { bail!(..) }`
StartCheck(c) ==
    /\ start_stop[c].op = "start"
    /\ start_stop[c].pc = "check"
    /\ IF server_handle # 0
       THEN Return(c, "already running")
       ELSE start_stop' = [start_stop EXCEPT ![c].pc = "bind"]
    /\ UNCHANGED <<server_handle, loops, accept_loops, running, tick_loops, restOfProxy>>
    /\ UNCHANGED outsideLife

\* lines 77-79: TcpListener::bind(addr).await.context(..)?, and lines 94-134
\* with no await in between: tokio::spawn of the accept loop, which owns
\* the listener.
StartBindSpawn(c) ==
    /\ start_stop[c].op = "start"
    /\ start_stop[c].pc = "bind"
    /\ IF PortInUse
       THEN /\ Return(c, "bind failed")
            /\ UNCHANGED <<loops, accept_loops>>
       ELSE /\ loops' = loops + 1
            /\ accept_loops' = Append(accept_loops, "live")
            /\ start_stop' = [start_stop EXCEPT ![c].pc = "store", ![c].handle = loops + 1]
    /\ UNCHANGED <<server_handle, running, tick_loops, restOfProxy>>
    /\ UNCHANGED outsideLife

\* lines 137-140: under the write lock, `*h = Some(handle)`; a JoinHandle
\* that is overwritten is dropped, which detaches its task.
StartStore(c) ==
    /\ start_stop[c].op = "start"
    /\ start_stop[c].pc = "store"
    /\ server_handle' = start_stop[c].handle
    /\ Return(c, "ok")
    /\ UNCHANGED <<loops, accept_loops, running, tick_loops, restOfProxy>>
    /\ UNCHANGED outsideLife

\* lines 147-150: under the write lock, `h.take()`
StopTake(c) ==
    /\ start_stop[c].op = "stop"
    /\ start_stop[c].pc = "take"
    /\ server_handle' = 0
    /\ IF server_handle = 0
       THEN Return(c, "ok")
       ELSE start_stop' = [start_stop EXCEPT ![c].pc = "abort", ![c].handle = server_handle]
    /\ UNCHANGED <<loops, accept_loops, running, tick_loops, restOfProxy>>
    /\ UNCHANGED outsideLife

\* a stop that takes the handle and drops it without aborting the task
StopAbort_detaching(c) ==
    /\ start_stop[c].op = "stop"
    /\ start_stop[c].pc = "abort"
    /\ Return(c, "ok")
    /\ UNCHANGED <<server_handle, loops, accept_loops, running, tick_loops, restOfProxy>>
    /\ UNCHANGED outsideLife

\* lines 152-155: handle.abort()
StopAbort(c) ==
    /\ start_stop[c].op = "stop"
    /\ start_stop[c].pc = "abort"
    /\ accept_loops' = [accept_loops EXCEPT ![start_stop[c].handle] = IF @ = "live" THEN "aborted" ELSE @]
    /\ Return(c, "ok")
    /\ UNCHANGED <<server_handle, loops, running, tick_loops, restOfProxy>>
    /\ UNCHANGED outsideLife

\* the runtime cancels an aborted accept loop at its await: the task and
\* its listener are dropped
AbortLands(i) ==
    /\ accept_loops[i] = "aborted"
    /\ accept_loops' = [accept_loops EXCEPT ![i] = "dead"]
    /\ UNCHANGED <<server_handle, loops, start_stop, running, tick_loops, restOfProxy>>
    /\ UNCHANGED outsideLife

NextInstance ==
    \/ CallStartStop
    \/ \E c \in 1..Len(start_stop) : StartCheck(c)
    \/ \E c \in 1..Len(start_stop) : StartBindSpawn(c)
    \/ \E c \in 1..Len(start_stop) : StartStore(c)
    \/ \E c \in 1..Len(start_stop) : StopTake(c)
    \/ \E c \in 1..Len(start_stop) : StopAbort(c)
    \/ \E i \in 1..Len(accept_loops) : AbortLands(i)

SpecInstance == InitInstance /\ [][NextInstance]_vars

\* ProxyInstance::is_running_async, lines 168-171
is_running_async == server_handle # 0

Quiescent == \A c \in 1..Len(start_stop) : start_stop[c].pc = "done"

\* at most one accept loop is live
AtMostOneAcceptLoop == Cardinality(LiveLoops) <= 1

\* while no call of start or stop is in progress, is_running_async() is
\* true exactly when an accept loop is live
RunningWhenQuiescent == Quiescent => (is_running_async <=> LiveLoops # {})

\* what the calls return, as steps: a start that finds the handle set
\* returns 'already running', a start whose bind fails returns that error,
\* a stop that finds no handle returns Ok, and each of the three leaves
\* the handle and the accept loops as they are
StartStopResults ==
    \A c \in 1..Len(start_stop) :
        (start_stop[c].pc # "done" /\ start_stop'[c].pc = "done") =>
            /\ (start_stop[c].pc = "check") =>
                  /\ server_handle # 0
                  /\ start_stop'[c].result = "already running"
                  /\ UNCHANGED <<server_handle, accept_loops>>
            /\ (start_stop[c].pc = "bind") =>
                  /\ start_stop'[c].result = "bind failed"
                  /\ UNCHANGED <<server_handle, accept_loops>>
            /\ (start_stop[c].pc = "take") =>
                  /\ server_handle = 0
                  /\ start_stop'[c].result = "ok"
                  /\ UNCHANGED <<server_handle, accept_loops>>

\* C33 (amended): under every interleaving of start and stop calls at most
\* one accept loop is live at any time; whenever no call is in progress
\* is_running_async() is true exactly when one is; the failing starts and
\* the stop of a stopped instance change nothing.
C33_OneLoopAndRunningWhenQuiescent ==
    /\ [](AtMostOneAcceptLoop /\ RunningWhenQuiescent)
    /\ [][StartStopResults]_vars

\* two starts raced: one loop is live, the other start failed to bind, and
\* no call is in progress
C33_Witness ==
    /\ Quiescent
    /\ is_running_async
    /\ \E c \in 1..Len(start_stop) : start_stop[c].result = "bind failed"
    /\ \E c \in 1..Len(start_stop) : start_stop[c].op = "stop"

\* C33: at every moment of every interleaving of start and stop calls, at
\* most one accept loop is live and is_running_async() is true exactly when
\* one is.
C33_RunningExactlyWhenLoopLive ==
    /\ Cardinality(LiveLoops) <= 1
    /\ is_running_async <=> LiveLoops # {}


(***************************************************************************)
(* Part XI, continued - CheckinScheduler::start and stop                   *)
(* (checkin_scheduler.rs:26-67) and the tick loop that start spawns.  What *)
(* the loop does in check_and_checkin is Part IV's; here only whether it   *)
(* enters it.                                                              *)
(***************************************************************************)
MaxTickLoops == 3        \* tick loops spawned by CheckinScheduler::start

InitScheduler ==
    /\ LedgerStart
    /\ ProxyIdle
    /\ CallIdle
    /\ CheckinIdle
    /\ PricingIdle
    /\ StoreIdle
    /\ LifeIdle

\* the loops that have not left their `loop`
LiveTickLoops == {i \in 1..Len(tick_loops) : tick_loops[i].state # "exited"}

restOfLife == <<proxyVars, accept_loops, start_stop>>

\* lines 27-59: under the write lock, return if *running; otherwise set it
\* and spawn the loop (its interval's first tick completes at once).
CheckinScheduler_start ==
    /\ Len(tick_loops) < MaxTickLoops
    /\ IF running
       THEN UNCHANGED <<running, tick_loops>>
       ELSE /\ running' = TRUE
            /\ tick_loops' = Append(tick_loops, [state |-> "sleeping", stopped |-> FALSE, checked_after_stop |-> FALSE])
    /\ UNCHANGED restOfLife
    /\ UNCHANGED outsideLife

\* lines 63-67: *running = false.  The loops alive at that moment are the
\* ones this stop is meant for (kept in `stopped`).
CheckinScheduler_stop ==
    /\ running' = FALSE
    /\ tick_loops' = [i \in 1..Len(tick_loops) |->
                        IF tick_loops[i].state # "exited"
                        THEN [tick_loops[i] EXCEPT !.stopped = TRUE]
                        ELSE tick_loops[i]]
    /\ UNCHANGED restOfLife
    /\ UNCHANGED outsideLife

\* lines 46-53: interval.tick().await completes; the loop reads *running
\* and breaks when it is false, and enters check_and_checkin otherwise.
LoopTick(i) ==
    /\ tick_loops[i].state = "sleeping"
    /\ tick_loops' = [tick_loops EXCEPT ![i] =
                        IF ~running
                        THEN [@ EXCEPT !.state = "exited"]
                        ELSE [@ EXCEPT !.state = "checking", !.checked_after_stop = @ \/ tick_loops[i].stopped]]
    /\ UNCHANGED running
    /\ UNCHANGED restOfLife
    /\ UNCHANGED outsideLife

\* lines 55-58: check_and_checkin returns; back to interval.tick()
LoopChecked(i) ==
    /\ tick_loops[i].state = "checking"
    /\ tick_loops' = [tick_loops EXCEPT ![i].state = "sleeping"]
    /\ UNCHANGED running
    /\ UNCHANGED restOfLife
    /\ UNCHANGED outsideLife

NextScheduler ==
    \/ CheckinScheduler_start
    \/ CheckinScheduler_stop
    \/ \E i \in 1..Len(tick_loops) : LoopTick(i)
    \/ \E i \in 1..Len(tick_loops) : LoopChecked(i)

SpecScheduler == InitScheduler /\ [][NextScheduler]_vars

\* start while running spawns no second loop
StartWhileRunningSpawnsNothing == [][running => Len(tick_loops') = Len(tick_loops)]_vars

\* C39: under every sequence of start and stop calls at most one scheduler
\* loop is live, and a loop that was stopped runs no check afterwards.
C39_AtMostOneTickLoop ==
    /\ Cardinality(LiveTickLoops) <= 1
    /\ \A i \in 1..Len(tick_loops) : ~tick_loops[i].checked_after_stop


(***************************************************************************)
(* Part IV, continued - the provider is edited by another actor (the       *)
(* settings commands, through ProviderManager::update_provider) while the  *)
(* tick loop is at any point of check_and_checkin.       SpecCheckinEdit   *)
(***************************************************************************)

\* the fields of a provider that the scheduler does not keep books in
settings(c) == [enabled |-> c.enabled, checkin_hour_start |-> c.checkin_hour_start, checkin_hour_end |-> c.checkin_hour_end]

\* Another actor saves the provider with check-in switched on or off, or
\* with another hour window.
EditProvider ==
    /\ \E p \in ProviderIds, enabled \in BOOLEAN, w \in Windows :
          /\ providers' = [providers EXCEPT ![p].enabled = enabled,
                                            ![p].checkin_hour_start = w[1],
                                            ![p].checkin_hour_end = w[2]]
          /\ providers' # providers
    /\ UNCHANGED <<clock, runs, checkins, window_over, retried_after_over>>
    /\ UNCHANGED <<last_tick, run_once_calls, outsideCheckin>>

NextCheckinEdit ==
    \/ Tick
    \/ Schedule("tick")
    \/ Reload("tick")
    \/ perform_checkin("tick")
    \/ CheckinSucceeds("tick")
    \/ CheckinFails("tick")
    \/ Advance
    \/ EditProvider

SpecCheckinEdit == InitCheckin /\ [][NextCheckinEdit]_vars

\* C40: the step that writes the result of a check-in (the success update
\* or the retry schedule) leaves the provider's settings as they are in the
\* store at that moment: an edit made while the HTTP call was in flight is
\* still there afterwards.
C40_ResultWriteKeepsSettings ==
    [][\A r \in Runners :
          (runs[r].pc = "awaiting" /\ runs'[r].pc = "idle") =>
              \A p \in ProviderIds : settings(providers'[p]) = settings(providers[p])]_vars


(***************************************************************************)
(* Part V, continued - the filter of sync_remote_prices that decides which *)
(* built-in template an entry of the mirror goes to (remote_sync.rs:       *)
(* 70-108), applied to drawn entries.                        SpecBuckets   *)
(*                                                                         *)
(* A key and a provider name are sequences of pieces; a price is an        *)
(* integer (its sign is all the filter looks at).                          *)
(***************************************************************************)
RemoteKeys ==
    {<<"claude-", "a">>, <<"gpt-", "a">>, <<"gemini-", "a">>,
     <<"openrouter", "/", "claude-", "a">>, <<"vertex_ai", "/", "gemini-", "a">>,
     <<"text-", "gemini-", "a">>}

RemoteProviders ==
    {None, Some(<<"anthropic">>), Some(<<"openai">>), Some(<<"vertex_ai">>),
     Some(<<"vertex_ai", "-language-models">>), Some(<<"gemini">>),
     Some(<<"bedrock", "anthropic">>)}

RemoteModes == {None, Some("chat"), Some("responses"), Some("embedding"), Some("image_generation")}

RemotePrices == {None, Some(-1), Some(0), Some(1)}

\* RemoteModelData, lines 19-28 (the fields the filter reads)
RemoteModelData ==
    [litellm_provider : RemoteProviders, input_cost_per_token : RemotePrices,
     output_cost_per_token : RemotePrices, mode : RemoteModes]

\* Option::is_some_and(|v| v > 0.0)
is_positive(price) == price # None /\ price[1] > 0

\* the filter without its mode rule
bucket_of_any_mode(key, data) ==
    IF contains(key, <<"/">>) THEN "none"
    ELSE IF ~is_positive(data.input_cost_per_token) \/ ~is_positive(data.output_cost_per_token)
    THEN "none"
    ELSE IF data.litellm_provider = Some(<<"anthropic">>) THEN "builtin_claude"
    ELSE IF data.litellm_provider = Some(<<"openai">>) THEN "builtin_openai"
    ELSE IF /\ data.litellm_provider # None
            /\ starts_with(data.litellm_provider[1], <<"vertex_ai">>)
            /\ starts_with(key, <<"gemini-">>)
    THEN "builtin_gemini"
    ELSE "none"

\* lines 75-107: the body of `for (key, data) in &all_models`, as the id of
\* the template the entry is inserted for ("none": the entry is skipped)
bucket_of(key, data) ==
    IF contains(key, <<"/">>) THEN "none"
    ELSE IF data.mode # None /\ data.mode[1] # "chat" /\ data.mode[1] # "responses"
    THEN "none"
    ELSE IF ~is_positive(data.input_cost_per_token) \/ ~is_positive(data.output_cost_per_token)
    THEN "none"
    ELSE IF data.litellm_provider = Some(<<"anthropic">>) THEN "builtin_claude"
    ELSE IF data.litellm_provider = Some(<<"openai">>) THEN "builtin_openai"
    ELSE IF /\ data.litellm_provider # None
            /\ starts_with(data.litellm_provider[1], <<"vertex_ai">>)
            /\ starts_with(key, <<"gemini-">>)
    THEN "builtin_gemini"
    ELSE "none"

ApplyBucket ==
    /\ call.fn = "none"
    /\ \E key \in RemoteKeys, data \in RemoteModelData :
          call' = [fn |-> "bucket_of", key |-> key, data |-> data, out |-> bucket_of(key, data)]
    /\ UNCHANGED outsideCall

NextBuckets == ApplyBucket

SpecBuckets == InitProcessor /\ [][NextBuckets]_vars

\* the conditions on key and prices, apart from the mode rule
PricedPlainKey(c) ==
    /\ ~contains(c.key, <<"/">>)
    /\ is_positive(c.data.input_cost_per_token)
    /\ is_positive(c.data.output_cost_per_token)

\* the template of an entry that passed the filter
TemplateByProvider(c) ==
    IF c.data.litellm_provider = Some(<<"anthropic">>) THEN "builtin_claude"
    ELSE IF c.data.litellm_provider = Some(<<"openai">>) THEN "builtin_openai"
    ELSE IF /\ c.data.litellm_provider # None
            /\ starts_with(c.data.litellm_provider[1], <<"vertex_ai">>)
            /\ starts_with(c.key, <<"gemini-">>)
    THEN "builtin_gemini"
    ELSE "none"

MaxHeaderValues == 2     \* occurrences of one header in a request

RepeatableNames == {"accept", "x-forwarded-for"}
SingleNames == {"host", "authorization", "x-api-key", "x-goog-api-key"}

MultiHeaderMaps ==
    {[n \in RepeatableNames \cup SingleNames |->
         IF n \in RepeatableNames THEN repeated[n]
         ELSE IF n \in present THEN <<"inbound">> ELSE <<>>] :
       repeated \in [RepeatableNames -> SeqsUpTo({"a", "b"}, MaxHeaderValues)],
       present \in SUBSET SingleNames}

\* HeaderMap::insert(name, value): the value replaces every value the
\* name had
insert_replacing(values, value) == <<value>>

\* `for (name, value) in original_headers.iter() { .. headers.insert(..) }`
\* for the pairs of one name
RECURSIVE copy_values(_, _)
copy_values(copied, values) ==
    IF values = <<>> THEN copied
    ELSE copy_values(insert_replacing(copied, Head(values)), Tail(values))

\* claude_processor.rs 101-121 and gemini_processor.rs 44-66: copy all but
\* the skipped names, then insert the credential header
copy_and_authorize(original_headers, skipped, credential, value) ==
    [n \in DOMAIN original_headers |->
        IF n = credential
        THEN insert_replacing(IF n \in skipped THEN <<>> ELSE copy_values(<<>>, original_headers[n]), value)
        ELSE IF n \in skipped THEN <<>>
        ELSE copy_values(<<>>, original_headers[n])]

ClaudeSkipped == {"host", "authorization", "x-api-key"}
GeminiSkipped == {"host", "x-goog-api-key", "authorization", "x-api-key"}

ApplyHeaderCopy ==
    /\ call.fn = "none"
    /\ \E original_headers \in MultiHeaderMaps, processor \in {"claude", "gemini"} :
          call' = [fn |-> "copy", processor |-> processor, original_headers |-> original_headers,
                   headers |-> IF processor = "claude"
                               THEN copy_and_authorize(original_headers, ClaudeSkipped, "authorization", "Bearer real")
                               ELSE copy_and_authorize(original_headers, GeminiSkipped, "x-goog-api-key", "real")]
    /\ UNCHANGED outsideCall

NextHeaderCopy == ApplyHeaderCopy

SpecHeaderCopy == InitProcessor /\ [][NextHeaderCopy]_vars

\* C36: every inbound header other than host, authorization, x-api-key (and
\* x-goog-api-key for Gemini) is forwarded with every one of its values, in
\* order, and nothing is added but the one credential header.
C36_EveryValueForwarded ==
    call.fn = "copy" =>
        LET skipped == IF call.processor = "claude" THEN ClaudeSkipped ELSE GeminiSkipped
            credential == IF call.processor = "claude" THEN "authorization" ELSE "x-goog-api-key"
        IN  \A n \in DOMAIN call.headers :
               IF n = credential THEN Len(call.headers[n]) = 1
               ELSE IF n \in skipped THEN call.headers[n] = <<>>
               ELSE call.headers[n] = call.original_headers[n]


(***************************************************************************)
(* Part VI, continued - ClaudeProcessor::process_sse_response over the     *)
(* lines of a stream in any order, with counts that differ from line to    *)
(* line (token_stats/processor/claude.rs:15-183).          SpecClaudeSse   *)
(***************************************************************************)
MaxSseLines == 2         \* data lines of one stream

\* usage objects without cache creation fields
SseUsage(input, output, cache_read) ==
    [input_tokens |-> input, output_tokens |-> output,
     cache_creation_input_tokens |-> None, cache_creation |-> None,
     cache_read_input_tokens |-> cache_read]

\* the data lines after trim, strip_prefix("data: ") and serde_json: a
\* message_start, a message_delta, another event, the [DONE] marker, or a
\* line that is not JSON
SseLines ==
    {[type |-> "message_start", id |-> id, usage |-> usage] :
        id \in {None, Some("msg_1"), Some("msg_2")},
        usage \in {None} \cup {Some(SseUsage(i, o, c)) :
                      i \in {None, Some(1), Some(2)}, o \in {None, Some(1)},
                      c \in {None, Some(1)}}}
    \cup {[type |-> "message_delta", id |-> None, usage |-> usage] :
             usage \in {None} \cup {Some(SseUsage(None, o, c)) :
                           o \in {None, Some(2), Some(3)}, c \in {None, Some(2)}}}
    \cup {[type |-> t, id |-> None, usage |-> None] :
             t \in {"content_block_delta", "[DONE]", "not json"}}

ApplyClaudeLines ==
    /\ call.fn = "none"
    /\ \E m \in RequestModels, chunks \in SeqsUpTo(SseLines, MaxSseLines) :
         call' = [fn |-> "claude_lines", request_model |-> m, events |-> chunks,
                  out |-> claude_process_sse_response(m, chunks)]
    /\ UNCHANGED outsideCall

NextClaudeSse == ApplyClaudeLines

SpecClaudeSse == InitProcessor /\ [][NextClaudeSse]_vars

\* the last line of the stream that satisfies Test, 0 when there is none
LastLine(events, Test(_)) ==
    LET found == {i \in 1..Len(events) : Test(events[i])}
    IN  IF found = {} THEN 0 ELSE CHOOSE i \in found : \A j \in found : j <= i

StartWithId(e) == e.type = "message_start" /\ e.id # None
StartWithUsage(e) == e.type = "message_start" /\ e.usage # None
DeltaWithOutput(e) == e.type = "message_delta" /\ e.usage # None /\ e.usage[1].output_tokens # None
DeltaWithCacheRead(e) == e.type = "message_delta" /\ e.usage # None /\ e.usage[1].cache_read_input_tokens # None

\* a count of the result: the value of the delta at line `delta` when
\* there is one, the value of the message_start at line `started` otherwise
CountFrom(events, started, delta, field) ==
    IF delta > 0 THEN events[delta].usage[1][field][1]
    ELSE IF started > 0 THEN unwrap_or(events[started].usage[1][field], 0)
    ELSE 0

\* the TokenInfo read off the lines, the deltas counted from line `since`
ExpectedTokenInfo(request_model, events, since) ==
    LET named == LastLine(events, StartWithId)
        started == LastLine(events, StartWithUsage)
        delta_out == LastLine(events, DeltaWithOutput)
        delta_read == LastLine(events, DeltaWithCacheRead)
    IN  IF request_model = None \/ named = 0 THEN None
        ELSE Some(TokenInfo(request_model[1], events[named].id[1],
                            CountFrom(events, started, 0, "input_tokens"),
                            CountFrom(events, started, IF delta_out > since[started] THEN delta_out ELSE 0, "output_tokens"),
                            0, 0,
                            CountFrom(events, started, IF delta_read > since[started] THEN delta_read ELSE 0, "cache_read_input_tokens"),
                            0))

====
